---------------------------- MODULE Spec2Model ----------------------------
(***************************************************************************)
(* A model of the ngrammatic crate: the weight bitstream codec             *)
(* (src/src/weights.rs), the bipartite graph                               *)
(* (src/src/bit_field_bipartite_graph.rs) and the two corpus builders      *)
(* (src/src/corpus.rs, src/src/corpus_par_from.rs).                        *)
(*                                                                         *)
(* The specifications of the module:                                        *)
(*   SpecWeights  WeightsBuilder::push / build and the three readers of a  *)
(*                built Weights (WeightsIter, Succ, Lender);               *)
(*   Spec         Corpus::from and Corpus::par_from run on one key         *)
(*                collection, and the accessors of the built graphs;       *)
(*   SpecHeap     the SearchResultsHeap of search_result.rs;               *)
(*   SpecSearch   searches on the corpora the two builders return;         *)
(*   SpecScenario the builders on the keys cat, dog, bird, fish, lion;     *)
(*   SpecRemap    the parallel remap of par_from, one atomic word          *)
(*                operation at a time;                                     *)
(*   SpecAccess   the accessors and searches called again and again on a   *)
(*                built corpus.                                            *)
(***************************************************************************)
EXTENDS Integers, Sequences, FiniteSets, TLC

VARIABLES
    \* ---- weights.rs ----
    builder,    \* the WeightsBuilder: writer (bits), offsets, len, num_nodes, num_weights
    pushed,     \* history: the rows passed to push, in order
    weights,    \* the Weights returned by build(), or NoWeights
    reader,     \* the reader obtained from the Weights: a WeightsIter, a Succ, a Lender
    \* ---- corpus.rs / corpus_par_from.rs ----
    keys,       \* the key collection handed to the builders
    pc,         \* position in the build scenario
    seq,        \* result of Corpus::from: a Corpus, or the panic of its assert
    par,        \* state of Corpus::par_from (locals while running, then a Corpus)
    \* ---- search_result.rs ----
    heap,       \* the SearchResultsHeap: n and the array of its BinaryHeap
    offered,    \* history: the search results passed to push, in order
    sorted,     \* the Vec returned by into_sorted_vec, once it has been called
    \* ---- search ----
    query,      \* the arguments of the last search, or the remembered call of SpecAccess
    hits,       \* what the last search or call returned on the corpus of each builder
    \* ---- the parallel remap of par_from, word by word ----
    remap       \* the words of the AtomicBitFieldVec and the position of each worker

wvars == <<builder, pushed, weights, reader>>
cvars == <<keys, pc, seq, par>>
hvars == <<heap, offered, sorted>>
svars == <<query, hits>>
vars == <<builder, pushed, weights, reader, keys, pc, seq, par, heap, offered, sorted,
          query, hits, remap>>

---------------------------------------------------------------------------
(* Bounds of the model *)

\* rows pushed on one WeightsBuilder
MaxRows == 3
\* total number of weights pushed on one WeightsBuilder
MaxWeights == 3
\* largest weight pushed
MaxWeight == 2
\* largest capacity of a SearchResultsHeap
MaxN == 2
\* search results pushed on one SearchResultsHeap
MaxResults == 3
\* largest score of a search result; the scores are 0..MaxScore
MaxScore == 2

\* keys in one collection
MaxKeys == 3
\* total number of grams in the keys of one collection
MaxGrams == 4
\* distinct gram values (the alphabet is 1..NumGrams)
NumGrams == 2

\* the writer and the reader work on u32 words (Writer<W>, Reader<R>)
WordBits == 32
\* the n-gram type of the corpus: BiGram
Arity == 2

---------------------------------------------------------------------------
(* Small helpers *)

RECURSIVE Pow2(_)
Pow2(n) == IF n = 0 THEN 1 ELSE 2 * Pow2(n - 1)

\* floor(log2 v) for v >= 1
RECURSIVE Ilog2(_)
Ilog2(v) == IF v <= 1 THEN 0 ELSE 1 + Ilog2(v \div 2)

RECURSIVE SumSeq(_)
SumSeq(s) == IF s = <<>> THEN 0 ELSE Head(s) + SumSeq(Tail(s))

RECURSIVE Flatten(_)
Flatten(ss) == IF ss = <<>> THEN <<>> ELSE Head(ss) \o Flatten(Tail(ss))

IsPrefix(s, t) == Len(s) <= Len(t) /\ SubSeq(t, 1, Len(s)) = s

Rows == UNION {[1..n -> 0..MaxWeight] : n \in 0..MaxWeights}

---------------------------------------------------------------------------
(* dsi_bitstream codes, little endian: what the writer appends *)

\* write_unary(n): n zero bits, then a one
WriteUnary(n) == [i \in 1..(n + 1) |-> IF i = n + 1 THEN 1 ELSE 0]

\* write_bits(v, n): the n low bits of v, lowest first
WriteBits(v, n) == [i \in 1..n |-> (v \div Pow2(i - 1)) % 2]

\* write_gamma(x): unary(floor(log2(x+1))), then the bits of x+1 below its top bit
WriteGamma(x) ==
    LET l == Ilog2(x + 1)
    IN  WriteUnary(l) \o WriteBits(x + 1 - Pow2(l), l)

(* The reader: a position in the data. The writer flushes whole words, so   *)
(* the data ends at the next multiple of WordBits, padded with zero bits;   *)
(* a read that needs a bit past that end fails (read_xxx().unwrap() panics) *)
DataLen(bits) == ((Len(bits) + WordBits - 1) \div WordBits) * WordBits

BitAt(bits, p) == IF p < Len(bits) THEN bits[p + 1] ELSE 0

Fail == [ok |-> FALSE, val |-> 0, pos |-> 0]

\* read_unary: the number of zero bits before the next one bit
ReadUnary(bits, pos) ==
    LET ones == {p \in pos..(Len(bits) - 1) : bits[p + 1] = 1}
    IN  IF ones = {} THEN Fail
        ELSE LET p == CHOOSE q \in ones : \A r \in ones : q <= r
             IN  [ok |-> TRUE, val |-> p - pos, pos |-> p + 1]

RECURSIVE BitsValue(_, _, _)
BitsValue(bits, pos, n) ==
    IF n = 0 THEN 0 ELSE BitAt(bits, pos) + 2 * BitsValue(bits, pos + 1, n - 1)

\* read_bits(n)
ReadBits(bits, pos, n) ==
    IF pos + n > DataLen(bits) THEN Fail
    ELSE [ok |-> TRUE, val |-> BitsValue(bits, pos, n), pos |-> pos + n]

\* read_gamma
ReadGamma(bits, pos) ==
    LET u == ReadUnary(bits, pos)
    IN  IF ~u.ok THEN Fail
        ELSE LET b == ReadBits(bits, u.pos, u.val)
             IN  IF ~b.ok THEN Fail
                 ELSE [ok |-> TRUE, val |-> b.val + Pow2(u.val) - 1, pos |-> b.pos]

---------------------------------------------------------------------------
(* WeightsBuilder *)

NewBuilder ==
    [writer |-> <<>>, offsets |-> <<>>, len |-> 0, num_nodes |-> 0, num_weights |-> 0]

(* The loop of push with the flush at the end of the row left out: a run of *)
(* zeros that ends the row gets its unary(0) and no run length              *)
RECURSIVE PushLoop_NoFlushAtEnd(_, _, _)
PushLoop_NoFlushAtEnd(row, out, zeros_range) ==
    IF row = <<>>
    THEN out
    ELSE LET weight == Head(row)
         IN  IF weight = 0
             THEN PushLoop_NoFlushAtEnd(Tail(row),
                           IF zeros_range = 0 THEN out \o WriteUnary(0) ELSE out,
                           zeros_range + 1)
             ELSE PushLoop_NoFlushAtEnd(Tail(row),
                           (IF zeros_range > 0
                            THEN out \o WriteGamma(zeros_range - 1) ELSE out)
                               \o WriteUnary(weight),
                           0)

(* The loop of push over the weights of the row: st = [out, zeros_range]    *)
RECURSIVE PushLoop(_, _, _)
PushLoop(row, out, zeros_range) ==
    IF row = <<>>
    THEN IF zeros_range > 0 THEN out \o WriteGamma(zeros_range - 1) ELSE out
    ELSE LET weight == Head(row)
         IN  IF weight = 0
             THEN PushLoop(Tail(row),
                           IF zeros_range = 0 THEN out \o WriteUnary(0) ELSE out,
                           zeros_range + 1)
             ELSE PushLoop(Tail(row),
                           (IF zeros_range > 0
                            THEN out \o WriteGamma(zeros_range - 1) ELSE out)
                               \o WriteUnary(weight),
                           0)

\* the bits push writes for one row
EncodeRow(row) == PushLoop(row, WriteGamma(Len(row)), 0)

\* what push returns: the number of bits it has written
PushReturns(row) == Len(EncodeRow(row))

\* push with the offset of the row taken after the row is written
PushRow_OffsetAfter(b, row) ==
    [writer      |-> b.writer \o EncodeRow(row),
     offsets     |-> Append(b.offsets, b.len + Len(EncodeRow(row))),
     len         |-> b.len + Len(EncodeRow(row)),
     num_nodes   |-> b.num_nodes + 1,
     num_weights |-> b.num_weights + Len(row)]

\* WeightsBuilder::push: the builder after the call
PushRow(b, row) ==
    LET written == EncodeRow(row)
    IN  [writer      |-> b.writer \o written,
         offsets     |-> Append(b.offsets, b.len),
         len         |-> b.len + Len(written),
         num_nodes   |-> b.num_nodes + 1,
         num_weights |-> b.num_weights + Len(row)]

NoWeights == [built |-> FALSE]

\* WeightsBuilder::build
BuildWeights(b) ==
    [built       |-> TRUE,
     num_nodes   |-> b.num_nodes,
     num_weights |-> b.num_weights,
     offsets     |-> b.offsets,
     data        |-> b.writer]

\* WeightsBuilder::par_build: the offsets are set each at its index, in
\* whatever order the workers run
ParBuildWeights(b) ==
    [built       |-> TRUE,
     num_nodes   |-> b.num_nodes,
     num_weights |-> b.num_weights,
     offsets     |-> [index \in 1..Len(b.offsets) |-> b.offsets[index]],
     data        |-> b.writer]

\* Weights::num_nodes, Weights::num_arcs
num_nodes(w) == w.num_nodes
num_arcs(w) == w.num_weights

---------------------------------------------------------------------------
(* Succ: the iterator over the weights of one node *)

\* Succ::reset, on a Succ whose reader is at pos; fails when read_gamma fails
SuccReset(data, pos) ==
    LET g == ReadGamma(data, pos)
    IN  [ok |-> g.ok, pos |-> g.pos, weights_to_decode |-> g.val, zeros_range |-> 0]

\* Succ::next with the zero run forgotten: after a zero weight the run length
\* is not read, so the zeros of the run are decoded as further unary codes
SuccNext_RunNotRead(data, s) ==
    IF s.weights_to_decode = 0
    THEN [ok |-> TRUE, some |-> FALSE, item |-> 0, pos |-> s.pos,
          weights_to_decode |-> 0, zeros_range |-> s.zeros_range]
    ELSE LET w == ReadUnary(data, s.pos)
         IN  [ok |-> w.ok, some |-> TRUE, item |-> w.val, pos |-> w.pos,
              weights_to_decode |-> s.weights_to_decode - 1,
              zeros_range |-> 0]

\* Succ::next: [ok, some, item, pos, weights_to_decode, zeros_range]
SuccNext(data, s) ==
    IF s.weights_to_decode = 0
    THEN [ok |-> TRUE, some |-> FALSE, item |-> 0, pos |-> s.pos,
          weights_to_decode |-> 0, zeros_range |-> s.zeros_range]
    ELSE IF s.zeros_range > 0
    THEN [ok |-> TRUE, some |-> TRUE, item |-> 0, pos |-> s.pos,
          weights_to_decode |-> s.weights_to_decode - 1,
          zeros_range |-> s.zeros_range - 1]
    ELSE LET w == ReadUnary(data, s.pos)
             z == IF w.ok /\ w.val = 0 THEN ReadGamma(data, w.pos)
                  ELSE [ok |-> w.ok, val |-> s.zeros_range, pos |-> w.pos]
         IN  [ok |-> w.ok /\ z.ok, some |-> TRUE, item |-> w.val, pos |-> z.pos,
              weights_to_decode |-> s.weights_to_decode - 1,
              zeros_range |-> z.val]

NoReader == [kind |-> "none"]

---------------------------------------------------------------------------
(* WeightsIter: the iterator over all the weights of all the nodes *)

\* Weights::weights: WeightsIter::new(get_reader(0), num_weights), and
\* Succ::new resets the Succ at once
NewWeightsIter(w) ==
    LET s == SuccReset(w.data, 0)
    IN  [kind |-> "weights", ok |-> s.ok, len |-> w.num_weights, pos |-> s.pos,
         weights_to_decode |-> s.weights_to_decode, zeros_range |-> s.zeros_range,
         out |-> <<>>, done |-> FALSE]

\* WeightsIter::next: the loop over next / reset
RECURSIVE WeightsIterNext(_, _)
WeightsIterNext(data, it) ==
    IF it.len = 0 THEN [it EXCEPT !.done = TRUE]
    ELSE LET n == SuccNext(data, it)
         IN  IF ~n.ok THEN [it EXCEPT !.ok = FALSE]
             ELSE IF n.some
             THEN [it EXCEPT !.len = it.len - 1, !.pos = n.pos,
                             !.weights_to_decode = n.weights_to_decode,
                             !.zeros_range = n.zeros_range,
                             !.out = Append(it.out, n.item)]
             ELSE LET r == SuccReset(data, n.pos)
                  IN  IF ~r.ok THEN [it EXCEPT !.ok = FALSE]
                      ELSE WeightsIterNext(data,
                               [it EXCEPT !.pos = r.pos,
                                          !.weights_to_decode = r.weights_to_decode,
                                          !.zeros_range = r.zeros_range])

---------------------------------------------------------------------------
(* RandomAccessLabeling for Weights *)

\* Weights::labels: Succ::new(get_reader(offsets.get(node_id)))
Labels(w, node_id) ==
    LET s == SuccReset(w.data, w.offsets[node_id + 1])
    IN  [kind |-> "labels", node |-> node_id, ok |-> s.ok, pos |-> s.pos,
         weights_to_decode |-> s.weights_to_decode, zeros_range |-> s.zeros_range,
         out |-> <<>>, done |-> FALSE]

\* one call of next on the Succ that labels returned
LabelsNext(data, s) ==
    LET n == SuccNext(data, s)
    IN  IF ~n.ok THEN [s EXCEPT !.ok = FALSE]
        ELSE IF n.some
        THEN [s EXCEPT !.pos = n.pos, !.weights_to_decode = n.weights_to_decode,
                       !.zeros_range = n.zeros_range, !.out = Append(s.out, n.item)]
        ELSE [s EXCEPT !.done = TRUE]

\* Weights::outdegree: the gamma prefix at the node's offset
Outdegree(w, node_id) ==
    LET g == ReadGamma(w.data, w.offsets[node_id + 1])
    IN  [kind |-> "outdegree", node |-> node_id, ok |-> g.ok, val |-> g.val]

---------------------------------------------------------------------------
(* SequentialLabeling for Weights: the Lender *)

\* Weights::iter_from
IterFrom(w, from) ==
    [kind |-> "lender", from |-> from, ok |-> TRUE,
     pos |-> w.offsets[from + 1],
     num_nodes |-> w.num_nodes - from,
     start_node |-> from,
     lent |-> <<>>, done |-> FALSE]

\* ExactSizeLender::len
LenderLen(l) == l.num_nodes - l.start_node

\* the while loop of Lender::next: [ok, pos, successors]
RECURSIVE DecodeSuccessors(_, _, _, _)
DecodeSuccessors(data, pos, weights_to_decode, successors) ==
    IF weights_to_decode = 0
    THEN [ok |-> TRUE, pos |-> pos, successors |-> successors]
    ELSE LET w == ReadUnary(data, pos)
         IN  IF ~w.ok THEN [ok |-> FALSE, pos |-> pos, successors |-> successors]
             ELSE IF w.val # 0
             THEN DecodeSuccessors(data, w.pos, weights_to_decode - 1,
                                   Append(successors, w.val))
             ELSE LET z == ReadGamma(data, w.pos)
                  IN  IF ~z.ok \/ z.val > weights_to_decode - 1
                      THEN [ok |-> FALSE, pos |-> pos, successors |-> successors]
                      ELSE DecodeSuccessors(data, z.pos,
                               weights_to_decode - 1 - z.val,
                               successors \o [i \in 1..(1 + z.val) |-> 0])

\* Lender::next
LenderNext(data, l) ==
    IF l.start_node = l.num_nodes THEN [l EXCEPT !.done = TRUE]
    ELSE LET g == ReadGamma(data, l.pos)
             d == IF g.ok THEN DecodeSuccessors(data, g.pos, g.val, <<>>)
                  ELSE [ok |-> FALSE, pos |-> l.pos, successors |-> <<>>]
         IN  IF ~d.ok THEN [l EXCEPT !.ok = FALSE]
             ELSE [l EXCEPT !.start_node = l.start_node + 1, !.pos = d.pos,
                            !.lent = Append(l.lent, <<l.start_node, d.successors>>)]

---------------------------------------------------------------------------
(* The weights specification *)

CorpusIdle ==
    /\ keys = <<>>
    /\ pc = "idle"
    /\ seq = [state |-> "none"]
    /\ par = [state |-> "none"]

NoHeap == [created |-> FALSE, n |-> 0, data |-> <<>>]
NoVec == [done |-> FALSE, vec |-> <<>>]

HeapIdle ==
    /\ heap = NoHeap
    /\ offered = <<>>
    /\ sorted = NoVec

NoQuery == [asked |-> FALSE]

SearchIdle ==
    /\ query = NoQuery
    /\ hits = <<>>

NoRemap == [words |-> <<>>, workers |-> <<>>]

RemapIdle == remap = NoRemap

InitWeights ==
    /\ builder = NewBuilder
    /\ pushed = <<>>
    /\ weights = NoWeights
    /\ reader = NoReader
    /\ CorpusIdle
    /\ HeapIdle
    /\ SearchIdle
    /\ RemapIdle

Push(row) ==
    /\ ~weights.built
    /\ builder.num_nodes < MaxRows
    /\ builder.num_weights + Len(row) <= MaxWeights
    /\ builder' = PushRow(builder, row)
    /\ pushed' = Append(pushed, row)
    /\ UNCHANGED <<weights, reader, cvars, hvars, svars, remap>>

Build ==
    /\ ~weights.built
    /\ weights' = BuildWeights(builder)
    /\ UNCHANGED <<builder, pushed, reader, cvars, hvars, svars, remap>>

ParBuild ==
    /\ ~weights.built
    /\ weights' = ParBuildWeights(builder)
    /\ UNCHANGED <<builder, pushed, reader, cvars, hvars, svars, remap>>

OpenWeights ==
    /\ weights.built
    /\ reader.kind = "none"
    /\ reader' = NewWeightsIter(weights)
    /\ UNCHANGED <<builder, pushed, weights, cvars, hvars, svars, remap>>

NextWeight ==
    /\ reader.kind = "weights"
    /\ reader.ok
    /\ reader' = WeightsIterNext(weights.data, reader)
    /\ UNCHANGED <<builder, pushed, weights, cvars, hvars, svars, remap>>

OpenLabels(node_id) ==
    /\ weights.built
    /\ reader.kind = "none"
    /\ node_id < weights.num_nodes
    /\ reader' = Labels(weights, node_id)
    /\ UNCHANGED <<builder, pushed, weights, cvars, hvars, svars, remap>>

NextLabel ==
    /\ reader.kind = "labels"
    /\ reader.ok
    /\ reader' = LabelsNext(weights.data, reader)
    /\ UNCHANGED <<builder, pushed, weights, cvars, hvars, svars, remap>>

ReadOutdegree(node_id) ==
    /\ weights.built
    /\ reader.kind = "none"
    /\ node_id < weights.num_nodes
    /\ reader' = Outdegree(weights, node_id)
    /\ UNCHANGED <<builder, pushed, weights, cvars, hvars, svars, remap>>

OpenLender(from) ==
    /\ weights.built
    /\ reader.kind = "none"
    /\ from < weights.num_nodes
    /\ reader' = IterFrom(weights, from)
    /\ UNCHANGED <<builder, pushed, weights, cvars, hvars, svars, remap>>

NextLend ==
    /\ reader.kind = "lender"
    /\ reader.ok
    /\ reader' = LenderNext(weights.data, reader)
    /\ UNCHANGED <<builder, pushed, weights, cvars, hvars, svars, remap>>

NextWeightsSpec ==
    \/ \E row \in Rows : Push(row)
    \/ Build
    \/ ParBuild
    \/ OpenWeights
    \/ NextWeight
    \/ \E node_id \in 0..(MaxRows - 1) : OpenLabels(node_id)
    \/ NextLabel
    \/ \E node_id \in 0..(MaxRows - 1) : ReadOutdegree(node_id)
    \/ \E from \in 0..(MaxRows - 1) : OpenLender(from)
    \/ NextLend

SpecWeights == InitWeights /\ [][NextWeightsSpec]_vars

---------------------------------------------------------------------------
(* Claims on the weight bitstream *)

\* what a Lender opened at from should lend
RECURSIVE RowsFrom(_, _)
RowsFrom(rows, from) ==
    IF from >= Len(rows) THEN <<>>
    ELSE <<<<from, rows[from + 1]>>>> \o RowsFrom(rows, from + 1)

(* C1: for every sequence of pushed rows, the weights() iterator of the     *)
(* built Weights returns the concatenation of the rows in push order, then  *)
(* None: it never fails, what it has returned so far is a prefix of the     *)
(* concatenation, and once it has returned None it has returned all of it.  *)
C1_WeightsRoundTrip ==
    reader.kind = "weights" =>
        /\ reader.ok
        /\ IsPrefix(reader.out, Flatten(pushed))
        /\ reader.done => reader.out = Flatten(pushed)

(* C2: labels(i) yields exactly the i-th pushed row, in order, then None,   *)
(* and outdegree(i) is the length of that row.                              *)
C2_LabelsAndOutdegree ==
    /\ reader.kind = "labels" =>
          /\ reader.ok
          /\ IsPrefix(reader.out, pushed[reader.node + 1])
          /\ reader.done => reader.out = pushed[reader.node + 1]
    /\ reader.kind = "outdegree" =>
          /\ reader.ok
          /\ reader.val = Len(pushed[reader.node + 1])

\* a row with a zero run and a non-zero weight, not the first row, read to its end
C2_Witness ==
    /\ reader.kind = "labels"
    /\ reader.done
    /\ reader.node > 0
    /\ \E i, j \in 1..Len(reader.out) : reader.out[i] = 0 /\ reader.out[j] > 1

(* C3: the lender of iter_from(from) lends (from, row_from), ...,           *)
(* (N-1, row_N-1) in this order, then None, and len() is the number of      *)
(* pairs still to be lent.                                                  *)
C3_LenderFrom ==
    reader.kind = "lender" =>
        /\ reader.ok
        /\ IsPrefix(reader.lent, RowsFrom(pushed, reader.from))
        /\ LenderLen(reader) = Len(pushed) - reader.from - Len(reader.lent)
        /\ reader.done => reader.lent = RowsFrom(pushed, reader.from)

---------------------------------------------------------------------------
(* Keys and n-grams *)

\* a key is what Key::grams yields for it: the normalized, padded grams
KeysUpTo(n) == UNION {[1..m -> 1..NumGrams] : m \in 0..n}

\* the characters of the keys cat, dog, bird, fish, lion and of their padding;
\* the gram of a character is its place in the sequence
Alphabet == <<" ", "a", "b", "c", "d", "f", "g", "h", "i", "l", "n", "o", "r", "s", "t">>

\* a power of two above every gram, those of the alphabet included
GramBase == 32

\* an n-gram as one packed word: the order of the words is the
\* lexicographic order of the tuples
RECURSIVE NgramOf(_)
NgramOf(window) ==
    IF window = <<>> THEN 0
    ELSE Head(window) * GramBase ^ (Len(window) - 1) + NgramOf(Tail(window))

\* IntoNgrams::ngrams: the sliding windows of Arity grams
Ngrams(key) ==
    IF Len(key) < Arity THEN <<>>
    ELSE [i \in 1..(Len(key) - Arity + 1) |-> NgramOf(SubSeq(key, i, i + Arity - 1))]

\* Key::counts with the and_modify left out: every n-gram of the key counted once
Counts_NoModify(key) ==
    [ngram \in {Ngrams(key)[i] : i \in DOMAIN Ngrams(key)} |-> 1]

\* Key::counts with or_insert(0): the first occurrence of an n-gram not counted
Counts_InsertZero(key) ==
    LET ngs == Ngrams(key)
    IN  [ng \in {ngs[i] : i \in 1..Len(ngs)} |->
            Cardinality({i \in 1..Len(ngs) : ngs[i] = ng}) - 1]

\* Key::counts: the occurrences of each n-gram of the key
Counts(key) ==
    LET ngs == Ngrams(key)
    IN  [ng \in {ngs[i] : i \in 1..Len(ngs)} |->
            Cardinality({i \in 1..Len(ngs) : ngs[i] = ng})]

\* the elements of a set of numbers in descending order: the order turned round
RECURSIVE SortedSeq_Descending(_)
SortedSeq_Descending(S) ==
    IF S = {} THEN <<>>
    ELSE LET m == CHOOSE x \in S : \A y \in S : x >= y
         IN  <<m>> \o SortedSeq_Descending(S \ {m})

\* the elements of a set of numbers, ascending
RECURSIVE SortedSeq(_)
SortedSeq(S) ==
    IF S = {} THEN <<>>
    ELSE LET m == CHOOSE x \in S : \A y \in S : x <= y
         IN  <<m>> \o SortedSeq(S \ {m})

\* the same, descending
RECURSIVE ReverseSortedSeq(_)
ReverseSortedSeq(S) ==
    IF S = {} THEN <<>>
    ELSE LET m == CHOOSE x \in S : \A y \in S : x >= y
         IN  <<m>> \o ReverseSortedSeq(S \ {m})

\* the (ngram, count) pairs of a key in descending order of n-gram: one of
\* the orders the hash map may give when the sort is left out
SortedCounts_NotSorted(key) ==
    LET c == Counts(key)
        order == ReverseSortedSeq(DOMAIN c)
    IN  [i \in 1..Len(order) |-> <<order[i], c[order[i]]>>]

\* the (ngram, count) pairs of a key, sorted by n-gram
SortedCounts(key) ==
    LET c == Counts(key)
        order == SortedSeq(DOMAIN c)
    IN  [i \in 1..Len(order) |-> <<order[i], c[order[i]]>>]

\* SortedNgramStorage::index_of_unchecked: the rank of the n-gram in the table
IndexOf(ngrams, ngram) == (CHOOSE i \in 1..Len(ngrams) : ngrams[i] = ngram) - 1

\* usize::next_power_of_two
RECURSIVE NextPowerOfTwoFrom(_, _)
NextPowerOfTwoFrom(n, p) == IF p >= n THEN p ELSE NextPowerOfTwoFrom(n, 2 * p)
NextPowerOfTwo(n) == NextPowerOfTwoFrom(n, 1)

---------------------------------------------------------------------------
(* sux BitFieldVec: len fields of bit_width bits *)

\* fits and in_bounds are history: whether every set_unchecked so far was
\* given a value below 2^bit_width, and an index below len
NewBitFieldVec(bit_width, len) ==
    [bit_width |-> bit_width, len |-> len, fields |-> [i \in 1..len |-> 0],
     fits |-> TRUE, in_bounds |-> TRUE]

\* get_unchecked
Get(v, index) == v.fields[index + 1]

(* set_unchecked(index, value). Its preconditions are index < len and        *)
(* value < 2^bit_width, and nothing checks them.                             *)
(*  - value >= 2^bit_width: the field cannot hold the value; what a later    *)
(*    get returns is some number below 2^bit_width, here junk % 2^bit_width  *)
(*    with junk chosen by the caller's action.                               *)
(*  - index >= len: the write lands past the last field, in the unused bits  *)
(*    of the backing words (the vectors of the model are shorter than one    *)
(*    word); no field changes.                                               *)
SetUnchecked(v, index, value, junk) ==
    IF index >= v.len
    THEN [v EXCEPT !.in_bounds = FALSE, !.fits = v.fits /\ value < Pow2(v.bit_width)]
    ELSE IF value >= Pow2(v.bit_width)
    THEN [v EXCEPT !.fields[index + 1] = junk % Pow2(v.bit_width), !.fits = FALSE]
    ELSE [v EXCEPT !.fields[index + 1] = value]

\* reset: every field back to zero
Reset(v) == [v EXCEPT !.fields = [i \in 1..v.len |-> 0]]

\* iter_from(start).take(n): the iterator ends at the last field
IterFromTake(v, start, n) ==
    [i \in 1..(IF start + n <= v.len THEN n
               ELSE IF start <= v.len THEN v.len - start ELSE 0) |->
        v.fields[start + i]]

---------------------------------------------------------------------------
(* WeightedBitFieldBipartiteGraph *)

\* WeightedBitFieldBipartiteGraph::new, with the fields named as in the struct
NewGraph(srcs_to_dsts_weights, srcs_offsets, dsts_offsets, srcs_to_dsts, dsts_to_srcs) ==
    [srcs_to_dsts_weights |-> srcs_to_dsts_weights,
     srcs_offsets |-> srcs_offsets,
     dsts_offsets |-> dsts_offsets,
     srcs_to_dsts |-> srcs_to_dsts,
     dsts_to_srcs |-> dsts_to_srcs]

number_of_source_nodes(g) == Len(g.srcs_offsets) - 1
number_of_destination_nodes(g) == Len(g.dsts_offsets) - 1
number_of_edges(g) == g.srcs_to_dsts_weights.num_weights

src_degree(g, src_id) == g.srcs_offsets[src_id + 2] - g.srcs_offsets[src_id + 1]
dst_degree(g, dst_id) == g.dsts_offsets[dst_id + 2] - g.dsts_offsets[dst_id + 1]

srcs_from_dst(g, dst_id) ==
    LET start == g.dsts_offsets[dst_id + 1]
        end == g.dsts_offsets[dst_id + 2]
    IN  IterFromTake(g.srcs_to_dsts, start, end - start)

\* dsts_from_src reading the vector named after its direction
dsts_from_src_OtherVector(g, src_id) ==
    LET start == g.srcs_offsets[src_id + 1]
        end == g.srcs_offsets[src_id + 2]
    IN  IterFromTake(g.srcs_to_dsts, start, end - start)

dsts_from_src(g, src_id) ==
    LET start == g.srcs_offsets[src_id + 1]
        end == g.srcs_offsets[src_id + 2]
    IN  IterFromTake(g.dsts_to_srcs, start, end - start)

---------------------------------------------------------------------------
(* Corpus::from *)

(* the loop over the keys: st = [ngrams, cooccurrences, key_offsets,         *)
(* key_to_ngrams]                                                            *)
RECURSIVE FromKeysLoop(_, _)
FromKeysLoop(ks, st) ==
    IF ks = <<>> THEN st
    ELSE LET ngram_counts == SortedCounts(Head(ks))
             n == Len(ngram_counts)
             cooccurrences == st.cooccurrences \o [i \in 1..n |-> ngram_counts[i][2]]
         IN  FromKeysLoop(Tail(ks),
                 [ngrams |-> st.ngrams \cup {ngram_counts[i][1] : i \in 1..n},
                  cooccurrences |-> cooccurrences,
                  key_offsets |-> Append(st.key_offsets, Len(cooccurrences)),
                  key_to_ngrams |-> st.key_to_ngrams \o
                                        [i \in 1..n |-> ngram_counts[i][1]]])

(* the loop over key_to_ngrams: st = [key_to_ngram_edges, ngram_degrees]     *)
RECURSIVE FromRemapLoop(_, _, _, _, _)
FromRemapLoop(key_to_ngrams, edge_id, ngrams, st, junk) ==
    IF edge_id = Len(key_to_ngrams) THEN st
    ELSE LET ngram_index == IndexOf(ngrams, key_to_ngrams[edge_id + 1])
         IN  FromRemapLoop(key_to_ngrams, edge_id + 1, ngrams,
                 [key_to_ngram_edges |->
                      SetUnchecked(st.key_to_ngram_edges, edge_id, ngram_index, junk),
                  ngram_degrees |->
                      SetUnchecked(st.ngram_degrees, ngram_index + 1,
                                   Get(st.ngram_degrees, ngram_index + 1) + 1, junk)],
                 junk)

\* the cumulative sums pushed on the Elias-Fano builder of the ngram offsets
RECURSIVE ComulativeSum(_, _)
ComulativeSum(degrees, comulative_sum) ==
    IF degrees = <<>> THEN <<>>
    ELSE <<comulative_sum + Head(degrees)>>
             \o ComulativeSum(Tail(degrees), comulative_sum + Head(degrees))

(* the loop that fills gram_to_key_edges, edge by edge in key order:         *)
(* st = [gram_to_key_edges, ngram_degrees]                                   *)
RECURSIVE FromInvertLoop(_, _, _, _, _)
FromInvertLoop(key_offsets, key_to_ngram_edges, edge_id, st, junk) ==
    IF edge_id = key_to_ngram_edges.len THEN st
    ELSE LET key_id == CHOOSE k \in 0..(Len(key_offsets) - 2) :
                           key_offsets[k + 1] <= edge_id /\ edge_id < key_offsets[k + 2]
             ngram_id == Get(key_to_ngram_edges, edge_id)
             ngram_degree == Get(st.ngram_degrees, ngram_id)
             inbound_edge_id == Get(st.ngram_degrees, ngram_id) + ngram_degree
         IN  FromInvertLoop(key_offsets, key_to_ngram_edges, edge_id + 1,
                 [gram_to_key_edges |->
                      SetUnchecked(st.gram_to_key_edges, inbound_edge_id, key_id, junk),
                  ngram_degrees |->
                      SetUnchecked(st.ngram_degrees, ngram_id, ngram_degree + 1, junk)],
                 junk)

Panicked(why) == [state |-> "panicked", why |-> why]

\* Corpus::from(keys)
From(ks, junk) ==
    LET parsed == FromKeysLoop(ks, [ngrams |-> {}, cooccurrences |-> <<>>,
                                    key_offsets |-> <<0>>, key_to_ngrams |-> <<>>])
    IN  IF parsed.ngrams = {}
        THEN Panicked("The corpus must contain at least one ngram.")
        ELSE
        LET cooccurrences == parsed.cooccurrences
            ngrams == SortedSeq(parsed.ngrams)
            remapped == FromRemapLoop(parsed.key_to_ngrams, 0, ngrams,
                [ngram_degrees |->
                     NewBitFieldVec(Ilog2(NextPowerOfTwo(Len(cooccurrences))),
                                    Len(ngrams) + 1),
                 key_to_ngram_edges |->
                     NewBitFieldVec(Ilog2(NextPowerOfTwo(Len(ngrams))),
                                    Len(parsed.key_to_ngrams))],
                junk)
            ngram_offsets == ComulativeSum(remapped.ngram_degrees.fields, 0)
            inverted == FromInvertLoop(parsed.key_offsets, remapped.key_to_ngram_edges, 0,
                [gram_to_key_edges |->
                     NewBitFieldVec(Ilog2(NextPowerOfTwo(Len(ks))), Len(cooccurrences)),
                 ngram_degrees |-> Reset(remapped.ngram_degrees)],
                junk)
        IN  [state |-> "built",
             keys |-> ks,
             ngrams |-> ngrams,
             graph |-> NewGraph([num_weights |-> Len(cooccurrences),
                                 values |-> cooccurrences],
                                parsed.key_offsets,
                                ngram_offsets,
                                inverted.gram_to_key_edges,
                                remapped.key_to_ngram_edges),
             ngram_degrees |-> inverted.ngram_degrees]

---------------------------------------------------------------------------
(* Corpus::par_from *)

\* the rows parse_keys pushes on the WeightsBuilder: the counts of each key
RECURSIVE PushAll(_, _)
PushAll(b, rows) ==
    IF rows = <<>> THEN b ELSE PushAll(PushRow(b, Head(rows)), Tail(rows))

(* Corpus::parse_keys: the distinct n-grams, the builder of the             *)
(* cooccurrences, the key offsets and the n-grams of the edges in key order *)
ParseKeys(ks) ==
    LET parsed == FromKeysLoop(ks, [ngrams |-> {}, cooccurrences |-> <<>>,
                                    key_offsets |-> <<0>>, key_to_ngrams |-> <<>>])
        rows == [k \in 1..Len(ks) |->
                    LET c == SortedCounts(ks[k])
                    IN  [i \in 1..Len(c) |-> c[i][2]]]
    IN  [ngrams |-> parsed.ngrams,
         cooccurrences_builder |-> PushAll(NewBuilder, rows),
         key_offsets |-> parsed.key_offsets,
         key_to_ngrams |-> parsed.key_to_ngrams]

\* par_from up to the start of the parallel remap (lines 134-172)
ParStart(ks) ==
    LET parsed == ParseKeys(ks)
        ngrams == SortedSeq(parsed.ngrams)
    IN  [state |-> "remap",
         ngrams |-> ngrams,
         cooccurrences |-> BuildWeights(parsed.cooccurrences_builder),
         key_offsets |-> parsed.key_offsets,
         key_to_ngrams |-> parsed.key_to_ngrams,
         ngram_degrees |->
             NewBitFieldVec(Ilog2(NextPowerOfTwo(Len(ks) + 1)), Len(ngrams) + 1),
         key_to_ngram_edges |->
             NewBitFieldVec(Ilog2(NextPowerOfTwo(Len(ngrams) + 1)),
                            Len(parsed.key_to_ngrams)),
         pending |-> 0..(Len(parsed.key_to_ngrams) - 1)]

\* the closure of the parallel for_each, for one edge
ParRemapEdge(p, edge_id, junk) ==
    LET ngram_index == IndexOf(p.ngrams, p.key_to_ngrams[edge_id + 1])
    IN  [p EXCEPT !.key_to_ngram_edges =
                      SetUnchecked(p.key_to_ngram_edges, edge_id, ngram_index, junk),
                  !.pending = p.pending \ {edge_id}]

\* the loop that counts the inbound degree of each n-gram
RECURSIVE ParDegreesLoop(_, _, _, _)
ParDegreesLoop(key_to_ngram_edges, edge_id, ngram_degrees, junk) ==
    IF edge_id = key_to_ngram_edges.len THEN ngram_degrees
    ELSE LET ngram_id == Get(key_to_ngram_edges, edge_id)
         IN  ParDegreesLoop(key_to_ngram_edges, edge_id + 1,
                 SetUnchecked(ngram_degrees, ngram_id + 1,
                              Get(ngram_degrees, ngram_id + 1) + 1, junk),
                 junk)

(* the loop that fills gram_to_key_edges with the position taken as in      *)
(* Corpus::from: the degree read twice, the offset of the n-gram not used   *)
RECURSIVE ParInvertLoop_NoOffset(_, _, _, _, _, _)
ParInvertLoop_NoOffset(key_offsets, ngram_offsets, key_to_ngram_edges, edge_id, st, junk) ==
    IF edge_id = key_to_ngram_edges.len THEN st
    ELSE LET key_id == CHOOSE k \in 0..(Len(key_offsets) - 2) :
                           key_offsets[k + 1] <= edge_id /\ edge_id < key_offsets[k + 2]
             ngram_id == Get(key_to_ngram_edges, edge_id)
             ngram_degree == Get(st.ngram_degrees, ngram_id)
             inbound_edge_id == Get(st.ngram_degrees, ngram_id) + ngram_degree
         IN  ParInvertLoop_NoOffset(key_offsets, ngram_offsets, key_to_ngram_edges,
                 edge_id + 1,
                 [gram_to_key_edges |->
                      SetUnchecked(st.gram_to_key_edges, inbound_edge_id, key_id, junk),
                  ngram_degrees |->
                      SetUnchecked(st.ngram_degrees, ngram_id, ngram_degree + 1, junk)],
                 junk)

(* the loop that fills gram_to_key_edges, edge by edge in key order:         *)
(* st = [gram_to_key_edges, ngram_degrees]                                   *)
RECURSIVE ParInvertLoop(_, _, _, _, _, _)
ParInvertLoop(key_offsets, ngram_offsets, key_to_ngram_edges, edge_id, st, junk) ==
    IF edge_id = key_to_ngram_edges.len THEN st
    ELSE LET key_id == CHOOSE k \in 0..(Len(key_offsets) - 2) :
                           key_offsets[k + 1] <= edge_id /\ edge_id < key_offsets[k + 2]
             ngram_id == Get(key_to_ngram_edges, edge_id)
             ngram_degree == Get(st.ngram_degrees, ngram_id)
             ngram_offset == ngram_offsets[ngram_id + 1]
             inbound_edge_id == ngram_offset + ngram_degree
         IN  ParInvertLoop(key_offsets, ngram_offsets, key_to_ngram_edges, edge_id + 1,
                 [gram_to_key_edges |->
                      SetUnchecked(st.gram_to_key_edges, inbound_edge_id, key_id, junk),
                  ngram_degrees |->
                      SetUnchecked(st.ngram_degrees, ngram_id, ngram_degree + 1, junk)],
                 junk)

\* par_from after the parallel remap (lines 194-311)
ParFinish(ks, p, junk) ==
    IF p.ngrams = <<>>
    THEN Panicked("ngrams.last().unwrap() on no ngram")
    ELSE
    LET ngram_degrees == ParDegreesLoop(p.key_to_ngram_edges, 0, p.ngram_degrees, junk)
        ngram_offsets == ComulativeSum(ngram_degrees.fields, 0)
        inverted == ParInvertLoop(p.key_offsets, ngram_offsets, p.key_to_ngram_edges, 0,
            [gram_to_key_edges |->
                 NewBitFieldVec(Ilog2(NextPowerOfTwo(Len(ks) + 1)),
                                p.cooccurrences.num_weights),
             ngram_degrees |-> Reset(ngram_degrees)],
            junk)
    IN  [state |-> "built",
         keys |-> ks,
         ngrams |-> p.ngrams,
         graph |-> NewGraph(p.cooccurrences,
                            p.key_offsets,
                            ngram_offsets,
                            inverted.gram_to_key_edges,
                            p.key_to_ngram_edges),
         ngram_degrees |-> inverted.ngram_degrees]

---------------------------------------------------------------------------
(* The corpus specification: one key collection, built by Corpus::from and  *)
(* then by Corpus::par_from                                                 *)

WeightsIdle ==
    /\ builder = NewBuilder
    /\ pushed = <<>>
    /\ weights = NoWeights
    /\ reader = NoReader

\* what a get may return after a set_unchecked of a value the field cannot hold
Junk == 0..(NextPowerOfTwo(MaxGrams) - 1)

\* whether no set_unchecked of the build was given a value its field cannot hold
Fits(c) ==
    c.state = "built" =>
        /\ c.ngram_degrees.fits
        /\ c.graph.srcs_to_dsts.fits
        /\ c.graph.dsts_to_srcs.fits

\* the values a get may return in a build: any, where a set_unchecked was
\* given a value its field cannot hold
JunkOf(fits) == IF fits THEN {0} ELSE Junk

TotalGrams(ks) == SumSeq([i \in 1..Len(ks) |-> Len(ks[i])])

Init ==
    /\ keys = <<>>
    /\ pc = "keys"
    /\ seq = [state |-> "none"]
    /\ par = [state |-> "none"]
    /\ WeightsIdle
    /\ HeapIdle
    /\ SearchIdle
    /\ RemapIdle

\* the caller puts one more key in the collection
AddKey(key) ==
    /\ pc = "keys"
    /\ Len(keys) < MaxKeys
    /\ keys' = Append(keys, key)
    /\ UNCHANGED <<pc, seq, par, wvars, hvars, svars, remap>>

\* Corpus::from(keys)
SeqFrom ==
    /\ pc = "keys"
    /\ \E junk \in JunkOf(Fits(From(keys, 0))) : seq' = From(keys, junk)
    /\ pc' = "from_done"
    /\ UNCHANGED <<keys, par, wvars, hvars, svars, remap>>

\* Corpus::par_from(keys), to the start of the parallel remap
ParFromStart ==
    /\ pc = "from_done"
    /\ par' = ParStart(keys)
    /\ pc' = "par_remap"
    /\ UNCHANGED <<keys, seq, wvars, hvars, svars, remap>>

\* one worker of the parallel remap stores the id of one edge's n-gram
ParRemapWorker(edge_id) ==
    /\ pc = "par_remap"
    /\ edge_id \in par.pending
    /\ \E junk \in JunkOf(ParRemapEdge(par, edge_id, 0).key_to_ngram_edges.fits) :
           par' = ParRemapEdge(par, edge_id, junk)
    /\ UNCHANGED <<keys, pc, seq, wvars, hvars, svars, remap>>

\* Corpus::par_from, after the workers have joined
ParFromFinish ==
    /\ pc = "par_remap"
    /\ par.pending = {}
    /\ \E junk \in JunkOf(Fits(ParFinish(keys, par, 0))) :
           par' = ParFinish(keys, par, junk)
    /\ pc' = "done"
    /\ UNCHANGED <<keys, seq, wvars, hvars, svars, remap>>

Next ==
    \/ \E key \in KeysUpTo(MaxGrams - TotalGrams(keys)) : AddKey(key)
    \/ SeqFrom
    \/ ParFromStart
    \/ \E edge_id \in 0..(MaxGrams - 1) : ParRemapWorker(edge_id)
    \/ ParFromFinish

Spec == Init /\ [][Next]_vars

---------------------------------------------------------------------------
(* The built corpora against the key collection they were built from *)

Range(f) == {f[i] : i \in DOMAIN f}

\* the corpora the two builders have returned so far
BuiltCorpora == {c \in {seq, par} : c.state = "built"}

KeyIds(c) == 0..(Len(c.keys) - 1)

\* the distinct n-grams of a key and of a key collection
NgramSet(key) == Range(Ngrams(key))
AllNgrams(ks) == UNION {NgramSet(ks[i]) : i \in 1..Len(ks)}

\* the rank of an n-gram among the distinct n-grams of the collection
Rank(ks, ngram) == Cardinality({x \in AllNgrams(ks) : x < ngram})

GramIds(c) == 0..(Cardinality(AllNgrams(c.keys)) - 1)

\* the ranks of the distinct n-grams of key kid
NgramIdsOfKey(ks, kid) == {Rank(ks, ngram) : ngram \in NgramSet(ks[kid + 1])}

Occurrences(s, x) == Cardinality({i \in DOMAIN s : s[i] = x})

\* the weights read one after the other from the start, to the end or to
\* the first failed read
RECURSIVE DrainWeights(_, _)
DrainWeights(data, it) ==
    IF it.done \/ ~it.ok THEN it ELSE DrainWeights(data, WeightsIterNext(data, it))

\* the weights of the edges of a corpus, in edge order
EdgeWeights(c) ==
    LET w == c.graph.srcs_to_dsts_weights
    IN  IF "data" \in DOMAIN w
        THEN DrainWeights(w.data, NewWeightsIter(w)).out
        ELSE w.values

StrictlyIncreasing(s) == \A i \in 1..(Len(s) - 1) : s[i] < s[i + 1]

NonDecreasing(s) == \A i \in 1..(Len(s) - 1) : s[i] <= s[i + 1]

\* C4: after Corpus::from or Corpus::par_from, for every key id kid,
\* dsts_from_src(kid) yields exactly the ranks, in the sorted table of the
\* n-grams of the collection, of the distinct n-grams of key kid, each once.
C4_KeyToGramEdges ==
    \A c \in BuiltCorpora : \A kid \in KeyIds(c) :
        LET ids == dsts_from_src(c.graph, kid)
        IN  /\ Range(ids) = NgramIdsOfKey(c.keys, kid)
            /\ Len(ids) = Cardinality(NgramIdsOfKey(c.keys, kid))

\* both builders have returned a corpus of several keys, one of them with
\* several distinct n-grams and one of them lacking an n-gram of another
C4_Witness ==
    /\ pc = "done"
    /\ seq.state = "built"
    /\ par.state = "built"
    /\ Len(keys) >= 2
    /\ \E kid \in KeyIds(par) : Len(dsts_from_src(par.graph, kid)) >= 2
    /\ \E kid \in KeyIds(seq) : Len(dsts_from_src(seq.graph, kid)) >= 2
    /\ \E i, j \in 1..Len(keys) : NgramSet(keys[i]) \ NgramSet(keys[j]) # {}

\* C5: after a build, sequential or parallel, kid is yielded by
\* srcs_from_dst(gid) iff gid is yielded by dsts_from_src(kid), and each such
\* pair is yielded exactly once in each direction.
C5_SameEdgeSet ==
    \A c \in BuiltCorpora : \A kid \in KeyIds(c) : \A gid \in GramIds(c) :
        /\ Occurrences(srcs_from_dst(c.graph, gid), kid)
               = Occurrences(dsts_from_src(c.graph, kid), gid)
        /\ Occurrences(dsts_from_src(c.graph, kid), gid) <= 1

\* C6: Corpus::from and Corpus::par_from of the same key collection give the
\* same key offsets, gram offsets, key-to-gram edges, gram-to-key edges,
\* weights and gram table.
C6_SeqParIdentical ==
    (pc = "done" /\ seq.state = "built" /\ par.state = "built") =>
        /\ seq.graph.srcs_offsets = par.graph.srcs_offsets
        /\ seq.graph.dsts_offsets = par.graph.dsts_offsets
        /\ seq.graph.dsts_to_srcs.fields = par.graph.dsts_to_srcs.fields
        /\ seq.graph.srcs_to_dsts.fields = par.graph.srcs_to_dsts.fields
        /\ EdgeWeights(seq) = EdgeWeights(par)
        /\ seq.ngrams = par.ngrams

\* C7: after a build, for every key kid the gram ids stored in its sub-range
\* [srcs_offsets[kid], srcs_offsets[kid+1]) of the key-to-gram edges are
\* strictly increasing.
C7_KeyRangeIncreasing ==
    \A c \in BuiltCorpora : \A kid \in KeyIds(c) :
        StrictlyIncreasing(dsts_from_src(c.graph, kid))

\* both builders have returned a corpus with a key of several distinct n-grams
C7_Witness ==
    /\ seq.state = "built"
    /\ par.state = "built"
    /\ \E kid \in KeyIds(seq) : Len(dsts_from_src(seq.graph, kid)) >= 2
    /\ \E kid \in KeyIds(par) : Len(dsts_from_src(par.graph, kid)) >= 3

\* C8: after Corpus::par_from, for every gram gid the key ids stored in its
\* sub-range [dsts_offsets[gid], dsts_offsets[gid+1]) of the gram-to-key
\* edges are strictly increasing.
C8_ParGramRangeIncreasing ==
    par.state = "built" =>
        \A gid \in GramIds(par) : StrictlyIncreasing(srcs_from_dst(par.graph, gid))

\* par_from has returned a corpus with an n-gram that occurs in several keys
C8_Witness ==
    /\ par.state = "built"
    /\ \E gid \in GramIds(par) : Len(srcs_from_dst(par.graph, gid)) >= 2

\* C9: after a build, the sum of src_degree over the keys and the sum of
\* dst_degree over the grams both equal number_of_edges().
C9_DegreeSums ==
    \A c \in BuiltCorpora :
        /\ SumSeq([i \in 1..Len(c.keys) |-> src_degree(c.graph, i - 1)])
               = number_of_edges(c.graph)
        /\ SumSeq([i \in 1..Cardinality(GramIds(c)) |-> dst_degree(c.graph, i - 1)])
               = number_of_edges(c.graph)

\* C10: after a build, the key offsets have S+1 entries and the gram offsets
\* G+1 entries, both are non-decreasing, both start at 0 and both end at E.
C10_Offsets ==
    \A c \in BuiltCorpora :
        /\ Len(c.graph.srcs_offsets) = Len(c.keys) + 1
        /\ Len(c.graph.dsts_offsets) = Cardinality(AllNgrams(c.keys)) + 1
        /\ NonDecreasing(c.graph.srcs_offsets)
        /\ NonDecreasing(c.graph.dsts_offsets)
        /\ c.graph.srcs_offsets[1] = 0
        /\ c.graph.dsts_offsets[1] = 0
        /\ c.graph.srcs_offsets[Len(c.graph.srcs_offsets)] = number_of_edges(c.graph)
        /\ c.graph.dsts_offsets[Len(c.graph.dsts_offsets)] = number_of_edges(c.graph)

---------------------------------------------------------------------------
(* The weights of the keys *)

\* the Succ that weights_from_src returned, read to None or to a failed read
RECURSIVE DrainLabels(_, _)
DrainLabels(data, s) ==
    IF s.done \/ ~s.ok THEN s ELSE DrainLabels(data, LabelsNext(data, s))

\* WeightedBipartiteGraph::weights_from_src, read to its end: [ok, out]
weights_from_src(g, src_id) ==
    LET w == g.srcs_to_dsts_weights
    IN  IF "data" \in DOMAIN w
        THEN LET s == DrainLabels(w.data, Labels(w, src_id))
             IN  [ok |-> s.ok, out |-> s.out]
        ELSE [ok |-> TRUE,
              out |-> SubSeq(w.values, g.srcs_offsets[src_id + 1] + 1,
                             g.srcs_offsets[src_id + 2])]

\* Corpus::ngram_from_id
ngram_from_id(c, ngram_id) == c.ngrams[ngram_id + 1]

\* the number of edges of the collection: the distinct n-grams of each key
EdgesOf(ks) == SumSeq([i \in 1..Len(ks) |-> Cardinality(NgramSet(ks[i]))])

\* C11: after a build, for every key kid the weights of the key are read
\* without failure and are exactly src_degree(kid) many, the j-th is the
\* number of occurrences in the key of the n-gram whose id is the j-th item
\* of dsts_from_src(kid), every weight is at least 1, and the number of
\* stored weights is the number of edges E.
C11_WeightsOfKey ==
    \A c \in BuiltCorpora :
        /\ number_of_edges(c.graph) = EdgesOf(c.keys)
        /\ Len(EdgeWeights(c)) = EdgesOf(c.keys)
        /\ \A kid \in KeyIds(c) :
               LET ws == weights_from_src(c.graph, kid)
                   ids == dsts_from_src(c.graph, kid)
               IN  /\ ws.ok
                   /\ Len(ws.out) = src_degree(c.graph, kid)
                   /\ Len(ws.out) = Len(ids)
                   /\ \A j \in 1..Len(ws.out) :
                          /\ ws.out[j] >= 1
                          /\ ws.out[j] = Occurrences(Ngrams(c.keys[kid + 1]),
                                                     ngram_from_id(c, ids[j]))

\* both builders have returned a corpus with a key of several distinct
\* n-grams, one of which occurs several times in the key
C11_Witness ==
    /\ seq.state = "built"
    /\ par.state = "built"
    /\ \E kid \in KeyIds(par) :
           /\ Len(weights_from_src(par.graph, kid).out) >= 2
           /\ Len(weights_from_src(seq.graph, kid).out) >= 2
           /\ \E j \in 1..2 : weights_from_src(par.graph, kid).out[j] >= 2
           /\ \E j \in 1..2 : weights_from_src(seq.graph, kid).out[j] >= 2

\* the number of sliding windows of Arity grams over a sequence of grams
Positions(key) == IF Len(key) >= Arity THEN Len(key) - Arity + 1 ELSE 0

\* C12: after a build, for every key the sum of the weights of its edges is
\* the number of n-gram positions (sliding windows of Arity grams) of the
\* key's sequence of grams.
C12_WeightSumIsPositions ==
    \A c \in BuiltCorpora : \A kid \in KeyIds(c) :
        /\ weights_from_src(c.graph, kid).ok
        /\ SumSeq(weights_from_src(c.graph, kid).out) = Positions(c.keys[kid + 1])

\* both builders have returned a corpus with a key too short for an n-gram
\* and a key in which an n-gram occurs several times
C12_Witness ==
    /\ seq.state = "built"
    /\ par.state = "built"
    /\ \E kid \in KeyIds(par) : Len(keys[kid + 1]) \in 1..(Arity - 1)
    /\ \E kid \in KeyIds(par) :
           /\ Positions(keys[kid + 1]) >= 2
           /\ SumSeq(weights_from_src(par.graph, kid).out) > src_degree(par.graph, kid)
           /\ SumSeq(weights_from_src(seq.graph, kid).out) > src_degree(seq.graph, kid)

---------------------------------------------------------------------------
(* The gram table *)

None == [some |-> FALSE]
Some(x) == [some |-> TRUE, val |-> x]

\* SortedNgramStorage::index_of: a binary search of the table, over the
\* positions lo..hi-1
RECURSIVE BinarySearch(_, _, _, _)
BinarySearch(ngrams, ngram, lo, hi) ==
    IF lo >= hi THEN None
    ELSE LET mid == lo + (hi - lo) \div 2
         IN  IF ngrams[mid + 1] = ngram THEN Some(mid)
             ELSE IF ngrams[mid + 1] < ngram
             THEN BinarySearch(ngrams, ngram, mid + 1, hi)
             ELSE BinarySearch(ngrams, ngram, lo, mid)

\* ngram_id_from_ngram with the failed search taken for a hit: an n-gram that
\* is not in the table gets the id 0
ngram_id_from_ngram_NeverNone(c, ngram) ==
    IF BinarySearch(c.ngrams, ngram, 0, Len(c.ngrams)).some
    THEN BinarySearch(c.ngrams, ngram, 0, Len(c.ngrams))
    ELSE Some(0)

\* Corpus::ngram_id_from_ngram
ngram_id_from_ngram(c, ngram) == BinarySearch(c.ngrams, ngram, 0, Len(c.ngrams))

\* number_of_ngrams with the keys counted
number_of_ngrams_Keys(c) == Len(c.keys)

\* Corpus::number_of_ngrams
number_of_ngrams(c) == Len(c.ngrams)

\* every n-gram over the alphabet
PossibleNgrams == {NgramOf(window) : window \in [1..Arity -> 1..NumGrams]}

\* C13: after a build, the gram table is strictly increasing and holds
\* exactly the n-grams that occur in some key; for every i below the number
\* of n-grams ngram_id_from_ngram(ngram_from_id(i)) is Some(i), and
\* ngram_id_from_ngram is None for every n-gram that occurs in no key.
C13_GramTable ==
    \A c \in BuiltCorpora :
        /\ StrictlyIncreasing(c.ngrams)
        /\ Range(c.ngrams) = AllNgrams(c.keys)
        /\ \A i \in 0..(number_of_ngrams(c) - 1) :
               ngram_id_from_ngram(c, ngram_from_id(c, i)) = Some(i)
        /\ \A ngram \in PossibleNgrams \ AllNgrams(c.keys) :
               ngram_id_from_ngram(c, ngram) = None

\* both builders have returned a corpus of three n-grams, and an n-gram over
\* the alphabet occurs in no key
C13_Witness ==
    /\ seq.state = "built"
    /\ par.state = "built"
    /\ number_of_ngrams(seq) >= 3
    /\ number_of_ngrams(par) >= 3
    /\ PossibleNgrams \ AllNgrams(keys) # {}

---------------------------------------------------------------------------
(* From an edge id to its key and to its gram *)

\* EliasFano::pred: the last position of the greatest value that is not
\* above x, and that value; None when every value is above x
pred(offsets, x) ==
    LET below == {i \in 1..Len(offsets) : offsets[i] <= x}
    IN  IF below = {} THEN None
        ELSE LET last == CHOOSE i \in below : \A j \in below : j <= i
             IN  Some(<<last - 1, offsets[last]>>)

\* src_id_from_edge_id: [ok, val], ok FALSE when the unwrap panics
src_id_from_edge_id(g, edge_id) ==
    LET p == pred(g.srcs_offsets, edge_id)
    IN  [ok |-> p.some, val |-> IF p.some THEN p.val[1] ELSE 0]

\* dst_id_from_edge_id: [ok, val], ok FALSE when the unwrap panics
dst_id_from_edge_id(g, edge_id) ==
    LET p == pred(g.dsts_offsets, edge_id)
    IN  [ok |-> p.some, val |-> IF p.some THEN p.val[1] ELSE 0]

\* id is the one node whose sub-range of the offsets holds edge_id
OnlyNodeOfEdge(offsets, number_of_nodes, edge_id, id) ==
    /\ id.ok
    /\ id.val \in 0..(number_of_nodes - 1)
    /\ \A n \in 0..(number_of_nodes - 1) :
           (offsets[n + 1] <= edge_id /\ edge_id < offsets[n + 2]) <=> n = id.val

\* C14: for every edge id e below E, src_id_from_edge_id(e) is the one key
\* id kid with srcs_offsets[kid] <= e < srcs_offsets[kid+1], and
\* dst_id_from_edge_id(e) is the one gram id gid with
\* dsts_offsets[gid] <= e < dsts_offsets[gid+1].
C14_NodeFromEdgeId ==
    \A c \in BuiltCorpora : \A e \in 0..(number_of_edges(c.graph) - 1) :
        /\ OnlyNodeOfEdge(c.graph.srcs_offsets, Len(c.keys), e,
                          src_id_from_edge_id(c.graph, e))
        /\ OnlyNodeOfEdge(c.graph.dsts_offsets, number_of_ngrams(c), e,
                          dst_id_from_edge_id(c.graph, e))

---------------------------------------------------------------------------
(* A key collection without n-grams *)

\* what the builders have returned or raised so far
Outcomes == {c \in {seq, par} : c.state \in {"built", "panicked"}}

\* the typed failure of a build from which no n-gram is extracted
EmptyCorpus == [state |-> "failed", error |-> "EmptyCorpus"]

\* C15: a build, sequential or parallel, of a key collection from which no
\* n-gram is extracted returns the EmptyCorpus error to its caller: it
\* neither produces a Corpus nor panics.
C15_EmptyCorpusError ==
    \A c \in Outcomes : AllNgrams(keys) = {} => c = EmptyCorpus

---------------------------------------------------------------------------
(* SearchResult and std::collections::BinaryHeap<Reverse<SearchResult>>      *)

\* SearchResult::new
SearchResult(key, score) == [key |-> key, score |-> score]

\* Ord for SearchResult: the scores alone are compared
Greater(a, b) == a.score > b.score

\* the order of Reverse<SearchResult>: a <= b, a < b, a >= b
RevLe(a, b) == b.score <= a.score
RevLt(a, b) == b.score < a.score
RevGe(a, b) == a.score <= b.score

\* BinaryHeap::sift_up with the hole at pos and its element out
RECURSIVE SiftUpHole(_, _, _, _)
SiftUpHole(data, element, start, pos) ==
    IF pos > start
    THEN LET parent == (pos - 1) \div 2
         IN  IF RevLe(element, data[parent + 1])
             THEN [data EXCEPT ![pos + 1] = element]
             ELSE SiftUpHole([data EXCEPT ![pos + 1] = data[parent + 1]],
                             element, start, parent)
    ELSE [data EXCEPT ![pos + 1] = element]

\* BinaryHeap::sift_up
SiftUp(data, start, pos) == SiftUpHole(data, data[pos + 1], start, pos)

\* usize::saturating_sub
SaturatingSub(a, b) == IF a >= b THEN a - b ELSE 0

\* the greater child of the hole, the second one when they are equal
GreaterChild(data, child) ==
    IF RevLe(data[child + 1], data[child + 2]) THEN child + 1 ELSE child

\* BinaryHeap::sift_down_range with the hole at pos and its element out
RECURSIVE SiftDownRangeHole(_, _, _, _)
SiftDownRangeHole(data, element, pos, end) ==
    LET child == 2 * pos + 1
    IN  IF child <= SaturatingSub(end, 2)
        THEN LET c == GreaterChild(data, child)
             IN  IF RevGe(element, data[c + 1])
                 THEN [data EXCEPT ![pos + 1] = element]
                 ELSE SiftDownRangeHole([data EXCEPT ![pos + 1] = data[c + 1]],
                                        element, c, end)
        ELSE IF child = end - 1 /\ RevLt(element, data[child + 1])
        THEN [data EXCEPT ![pos + 1] = data[child + 1], ![child + 1] = element]
        ELSE [data EXCEPT ![pos + 1] = element]

\* BinaryHeap::sift_down_range
SiftDownRange(data, pos, end) == SiftDownRangeHole(data, data[pos + 1], pos, end)

\* the descent of BinaryHeap::sift_down_to_bottom: [data, pos], the hole at
\* pos of the result
RECURSIVE ToBottom(_, _, _)
ToBottom(data, pos, end) ==
    LET child == 2 * pos + 1
    IN  IF child <= SaturatingSub(end, 2)
        THEN LET c == GreaterChild(data, child)
             IN  ToBottom([data EXCEPT ![pos + 1] = data[c + 1]], c, end)
        ELSE IF child = end - 1
        THEN [data |-> [data EXCEPT ![pos + 1] = data[child + 1]], pos |-> child]
        ELSE [data |-> data, pos |-> pos]

\* BinaryHeap::sift_down_to_bottom
SiftDownToBottom(data, pos) ==
    LET b == ToBottom(data, pos, Len(data))
    IN  SiftUpHole(b.data, data[pos + 1], pos, b.pos)

\* BinaryHeap::push
BinaryHeapPush(data, item) == SiftUp(Append(data, item), 0, Len(data))

\* BinaryHeap::pop, of a heap that is not empty: the array that is left
BinaryHeapPop(data) ==
    LET item == data[Len(data)]
        rest == SubSeq(data, 1, Len(data) - 1)
    IN  IF rest = <<>> THEN rest
        ELSE SiftDownToBottom([rest EXCEPT ![1] = item], 0)

\* BinaryHeap::into_sorted_vec: the loop, end counting down
RECURSIVE SortLoop(_, _)
SortLoop(data, end) ==
    IF end > 1
    THEN LET e == end - 1
             swapped == [data EXCEPT ![1] = data[e + 1], ![e + 1] = data[1]]
         IN  SortLoop(SiftDownRange(swapped, 0, e), e)
    ELSE data

BinaryHeapIntoSortedVec(data) == SortLoop(data, Len(data))

---------------------------------------------------------------------------
(* SearchResultsHeap *)

\* SearchResultsHeap::new
NewHeap(n) == [created |-> TRUE, n |-> n, data |-> <<>>]

\* SearchResultsHeap::push that never makes room: a full heap keeps its results
HeapPush_NoReplace(h, search_result) ==
    IF Len(h.data) < h.n
    THEN [h EXCEPT !.data = BinaryHeapPush(h.data, search_result)]
    ELSE h

\* SearchResultsHeap::push with len <= n for len < n
HeapPush_OneMore(h, search_result) ==
    IF Len(h.data) <= h.n
    THEN [h EXCEPT !.data = BinaryHeapPush(h.data, search_result)]
    ELSE IF Greater(search_result, h.data[1])
    THEN [h EXCEPT !.data = BinaryHeapPush(BinaryHeapPop(h.data), search_result)]
    ELSE h

\* SearchResultsHeap::push
HeapPush(h, search_result) ==
    IF Len(h.data) < h.n
    THEN [h EXCEPT !.data = BinaryHeapPush(h.data, search_result)]
    ELSE IF h.data # <<>>
    THEN IF Greater(search_result, h.data[1])
         THEN [h EXCEPT !.data = BinaryHeapPush(BinaryHeapPop(h.data), search_result)]
         ELSE h
    ELSE h

\* SearchResultsHeap::into_sorted_vec
HeapIntoSortedVec(h) == BinaryHeapIntoSortedVec(h.data)

---------------------------------------------------------------------------
(* The heap specification *)

InitHeap ==
    /\ HeapIdle
    /\ WeightsIdle
    /\ CorpusIdle
    /\ SearchIdle
    /\ RemapIdle

\* SearchResultsHeap::new(n)
CreateHeap(n) ==
    /\ ~heap.created
    /\ heap' = NewHeap(n)
    /\ UNCHANGED <<offered, sorted, wvars, cvars, svars, remap>>

\* push of the result of a key that has not been pushed
PushResult(key, score) ==
    /\ heap.created
    /\ ~sorted.done
    /\ Len(offered) < MaxResults
    /\ \A i \in 1..Len(offered) : offered[i].key # key
    /\ heap' = HeapPush(heap, SearchResult(key, score))
    /\ offered' = Append(offered, SearchResult(key, score))
    /\ UNCHANGED <<sorted, wvars, cvars, svars, remap>>

\* into_sorted_vec, which consumes the heap
IntoSortedVec ==
    /\ heap.created
    /\ ~sorted.done
    /\ sorted' = [done |-> TRUE, vec |-> HeapIntoSortedVec(heap)]
    /\ UNCHANGED <<heap, offered, wvars, cvars, svars, remap>>

NextHeap ==
    \/ \E n \in 0..MaxN : CreateHeap(n)
    \/ \E key \in 0..(MaxResults - 1), score \in 0..MaxScore : PushResult(key, score)
    \/ IntoSortedVec

SpecHeap == InitHeap /\ [][NextHeap]_vars

---------------------------------------------------------------------------
(* The results of a SearchResultsHeap against the results pushed on it *)

Min(a, b) == IF a <= b THEN a ELSE b

Scores(results) == [i \in 1..Len(results) |-> results[i].score]

\* a sequence without its element at position i
Without(s, i) == SubSeq(s, 1, i - 1) \o SubSeq(s, i + 1, Len(s))

\* the numbers of a sequence from the largest to the smallest, each as often
\* as in the sequence
RECURSIVE Descending(_)
Descending(s) ==
    IF s = <<>> THEN <<>>
    ELSE LET i == CHOOSE i \in 1..Len(s) : \A j \in 1..Len(s) : s[j] <= s[i]
         IN  <<s[i]>> \o Descending(Without(s, i))

\* C16: for every sequence of results pushed on SearchResultsHeap::new(n),
\* into_sorted_vec returns min(n, number pushed) of the pushed results,
\* none of them twice, and their scores are the largest scores pushed, each
\* as often as pushed, from the largest to the smallest.
C16_TopScoresDescending ==
    sorted.done =>
        /\ Len(sorted.vec) = Min(heap.n, Len(offered))
        /\ Scores(sorted.vec) = SubSeq(Descending(Scores(offered)), 1, Len(sorted.vec))
        /\ \A i \in 1..Len(sorted.vec) : Occurrences(offered, sorted.vec[i]) = 1
        /\ \A i, j \in 1..Len(sorted.vec) : sorted.vec[i] = sorted.vec[j] => i = j

\* into_sorted_vec has returned from a heap of capacity 2 or more on which
\* more results than that were pushed, the last with a higher score than an
\* earlier one and with the score of another
C16_Witness ==
    /\ sorted.done
    /\ heap.n >= 2
    /\ Len(offered) > heap.n
    /\ \E i \in 1..(Len(offered) - 1) : offered[i].score < offered[Len(offered)].score
    /\ \E i \in 1..(Len(offered) - 1) : offered[i].score = offered[Len(offered)].score

\* C17: after every push on a SearchResultsHeap created with capacity n the
\* heap holds at most n results, with n = 0 none, and so does the Vec that
\* into_sorted_vec returns.
C17_AtMostN ==
    /\ Len(heap.data) <= heap.n
    /\ sorted.done => Len(sorted.vec) <= heap.n
    /\ (heap.created /\ heap.n = 0) => heap.data = <<>>

\* more results than its capacity, which is not 0, were pushed on the heap
C17_Witness ==
    /\ heap.created
    /\ heap.n >= 1
    /\ Len(offered) > heap.n
    /\ Len(heap.data) = heap.n

\* C18: ties of score are broken by ascending key id: results of one score
\* are returned in ascending order of key id, and a pushed result that is
\* not returned has a larger key id than every returned result of its score.
C18_TiesByKeyId ==
    sorted.done =>
        /\ \A i, j \in 1..Len(sorted.vec) :
               (i < j /\ sorted.vec[i].score = sorted.vec[j].score)
                   => sorted.vec[i].key < sorted.vec[j].key
        /\ \A i \in 1..Len(offered) : \A j \in 1..Len(sorted.vec) :
               (Occurrences(sorted.vec, offered[i]) = 0
                    /\ offered[i].score = sorted.vec[j].score)
                   => sorted.vec[j].key < offered[i].key

---------------------------------------------------------------------------
(* Corpus::search, as section 4.8 of the specification describes it: the    *)
(* search module is not among the sources. Its steps use the accessors of   *)
(* corpus.rs and bit_field_bipartite_graph.rs and the heap of               *)
(* search_result.rs.                                                        *)

\* the number of grams of the longest key and of the longest query of a search
MaxQuery == 3

\* the number of keys of the corpora that are searched
MaxSearchKeys == 2

\* the thresholds of the searches, as fractions <<numerator, denominator>>
Thresholds == {<<0, 1>>, <<1, 3>>, <<1, 2>>, <<1, 1>>}

RECURSIVE Factorial(_)
Factorial(n) == IF n = 0 THEN 1 ELSE n * Factorial(n - 1)

\* a score s is held as the integer s * ScoreScale, which is exact: the
\* denominator of a score is at most N_q + N_k
ScoreScale == Factorial(2 * MaxQuery)

\* score >= threshold
AtLeast(score, t) == score * t[2] >= t[1] * ScoreScale

\* steps 1 and 2: the counts of the n-grams of the query that are in the
\* gram table, by gram id
QueryCounts(c, q) ==
    LET counts == Counts(q)
        known == {ng \in DOMAIN counts : ngram_id_from_ngram(c, ng).some}
    IN  [gid \in {ngram_id_from_ngram(c, ng).val : ng \in known} |->
            LET with_id == SortedSeq({ng \in known :
                                         ngram_id_from_ngram(c, ng).val = gid})
            IN  SumSeq([i \in 1..Len(with_id) |-> counts[with_id[i]]])]

\* step 3: the keys met on the neighbour lists of the grams of Q
Candidates(c, Q) == UNION {Range(srcs_from_dst(c.graph, gid)) : gid \in DOMAIN Q}

\* the weight at the place of gram gid in the neighbour list dsts of a key
\* whose weights are ws, 0 when the gram is not in the list
WeightAt(dsts, ws, gid) ==
    LET at == {i \in DOMAIN dsts : dsts[i] = gid /\ i \in DOMAIN ws}
    IN  IF at = {} THEN 0 ELSE ws[CHOOSE i \in at : \A j \in at : i <= j]

\* w(k, g): the weight of the edge from key kid to gram gid, 0 without an edge
WeightOf(c, kid, gid) ==
    WeightAt(dsts_from_src(c.graph, kid), weights_from_src(c.graph, kid).out, gid)

\* the overlap of Q and key kid: the sum over g of min(q[g], w(k, g))
Overlap(c, kid, Q) ==
    LET gids == SortedSeq(DOMAIN Q)
    IN  SumSeq([i \in 1..Len(gids) |-> Min(Q[gids[i]], WeightOf(c, kid, gids[i]))])

\* step 4: the weighted Jaccard score shared / (N_q + N_k - shared), times
\* ScoreScale
Score(shared, n_q, n_k) == (shared * ScoreScale) \div (n_q + n_k - shared)

\* the overlap and the score of key kid, with N_q and N_k the total n-gram
\* counts of the query and of the key
Scored(c, kid, q, shared) ==
    [overlap |-> shared,
     score |-> Score(shared, Len(Ngrams(q)),
                     SumSeq(weights_from_src(c.graph, kid).out))]

\* step 5: the candidates pushed on the bounded heap, in order
RECURSIVE PushEach(_, _)
PushEach(h, results) ==
    IF results = <<>> THEN h ELSE PushEach(HeapPush(h, Head(results)), Tail(results))

\* steps 4 and 5: the candidates with a non-zero overlap and a score of at
\* least t go through a heap of k results, in ascending order of key id
TopResults(scored, t, k) ==
    LET kept == SortedSeq({kid \in DOMAIN scored :
                              /\ scored[kid].overlap > 0
                              /\ AtLeast(scored[kid].score, t)})
    IN  HeapIntoSortedVec(PushEach(NewHeap(k),
            [i \in 1..Len(kept) |-> SearchResult(kept[i], scored[kept[i]].score)]))

\* Corpus::search(q, t, k)
search(c, q, t, k) ==
    LET Q == QueryCounts(c, q)
        candidates == Candidates(c, Q)
    IN  IF \E kid \in candidates : kid >= Len(c.keys)
        THEN Panicked("key id out of range")
        ELSE [state |-> "returned",
              results |->
                  TopResults([kid \in candidates |->
                                 Scored(c, kid, q, Overlap(c, kid, Q))], t, k)]

---------------------------------------------------------------------------
(* The search specification: a key collection, the corpus each builder      *)
(* returns for it, and one search on both                                   *)

\* the parallel remap run to its end, one edge after the other
RECURSIVE ParRemapAll(_, _)
ParRemapAll(p, junk) ==
    IF p.pending = {} THEN p
    ELSE ParRemapAll(ParRemapEdge(p, CHOOSE e \in p.pending :
                                         \A f \in p.pending : e <= f, junk), junk)

\* Corpus::par_from(keys)
ParFrom(ks, junk) == ParFinish(ks, ParRemapAll(ParStart(ks), junk), junk)

\* the key collections of the searched corpora
SearchCollections == UNION {[1..m -> KeysUpTo(MaxQuery)] : m \in 0..MaxSearchKeys}

InitSearch ==
    /\ keys \in SearchCollections
    /\ pc = "done"
    /\ seq \in {From(keys, junk) : junk \in Junk}
    /\ par \in {ParFrom(keys, junk) : junk \in Junk}
    /\ WeightsIdle
    /\ HeapIdle
    /\ SearchIdle
    /\ RemapIdle

\* the corpus of a builder, by the name of the builder
CorpusOf(name) == IF name = "seq" THEN seq ELSE par

\* what a search on a corpus returns; there is nothing to search when the
\* builder panicked
SearchOn(c, q, t, k) ==
    IF c.state = "built" THEN search(c, q, t, k) ELSE [state |-> "no corpus"]

\* search(q, t, k) on the corpus of each builder
SearchQuery(q, t, k) ==
    /\ pc = "done"
    /\ ~query.asked
    /\ query' = [asked |-> TRUE, q |-> q, t |-> t, k |-> k]
    /\ hits' = [name \in {"seq", "par"} |-> SearchOn(CorpusOf(name), q, t, k)]
    /\ UNCHANGED <<cvars, wvars, hvars, remap>>

NextSearch ==
    \E q \in KeysUpTo(MaxQuery), t \in Thresholds, k \in 1..MaxN : SearchQuery(q, t, k)

SpecSearch == InitSearch /\ [][NextSearch]_vars

---------------------------------------------------------------------------
(* The results of a search against the key collection and the query *)

\* sum over g of min(q[g], w(key, g)), from the texts of the key and the query
SharedNgrams(key, q) ==
    LET kc == Counts(key)
        qc == Counts(q)
        both == SortedSeq(DOMAIN kc \cap DOMAIN qc)
    IN  SumSeq([i \in 1..Len(both) |-> Min(qc[both[i]], kc[both[i]])])

\* whether the score of the key is defined: the key or the query has an n-gram
HasScore(key, q) == Len(Ngrams(key)) + Len(Ngrams(q)) > 0

\* the weighted Jaccard score of the key for the query, times ScoreScale
Jaccard(key, q) ==
    (SharedNgrams(key, q) * ScoreScale)
        \div (Len(Ngrams(q)) + Len(Ngrams(key)) - SharedNgrams(key, q))

\* the key ids of the results of a search
ResultKeys(r) == {r.results[i].key : i \in 1..Len(r.results)}

(* C19: search(q, t, k) returns only keys whose weighted Jaccard score is   *)
(* at least t, with that score, and it leaves out a key whose score is at   *)
(* least t only when it returns k keys whose scores are at least as high.   *)
C19_ThresholdAndLimit ==
    query.asked =>
        \A name \in {"seq", "par"} :
            CorpusOf(name).state = "built" =>
                /\ hits[name].state = "returned"
                /\ \A i \in 1..Len(hits[name].results) :
                       LET r == hits[name].results[i]
                       IN  /\ r.key \in KeyIds(CorpusOf(name))
                           /\ r.score = Jaccard(keys[r.key + 1], query.q)
                           /\ AtLeast(r.score, query.t)
                /\ \A kid \in KeyIds(CorpusOf(name)) \ ResultKeys(hits[name]) :
                       (/\ HasScore(keys[kid + 1], query.q)
                        /\ AtLeast(Jaccard(keys[kid + 1], query.q), query.t))
                       => /\ Len(hits[name].results) = query.k
                          /\ \A i \in 1..Len(hits[name].results) :
                                 hits[name].results[i].score
                                     >= Jaccard(keys[kid + 1], query.q)

(* C20: self-similarity: for every key of the corpus, search(key, 1.0, 1)   *)
(* returns exactly one result, a key of that text, with score 1.0.          *)
C20_SelfSimilarity ==
    (/\ query.asked
     /\ query.t = <<1, 1>>
     /\ query.k = 1
     /\ \E i \in 1..Len(keys) : keys[i] = query.q)
    => \A name \in {"seq", "par"} :
           CorpusOf(name).state = "built" =>
               /\ hits[name].state = "returned"
               /\ Len(hits[name].results) = 1
               /\ hits[name].results[1].key \in KeyIds(CorpusOf(name))
               /\ keys[hits[name].results[1].key + 1] = query.q
               /\ hits[name].results[1].score = ScoreScale

\* whether no n-gram of the query is in the gram table of corpus c
NoKnownNgram(c, q) == \A i \in DOMAIN Ngrams(q) : Ngrams(q)[i] \notin Range(c.ngrams)

(* C21: a query none of whose n-grams is in the gram table, a query with    *)
(* no n-gram among them, returns the empty list and no error, whatever the  *)
(* threshold and the limit.                                                 *)
C21_AbsentGramsEmptyResult ==
    query.asked =>
        \A name \in {"seq", "par"} :
            (/\ CorpusOf(name).state = "built"
             /\ NoKnownNgram(CorpusOf(name), query.q))
            => hits[name] = [state |-> "returned", results |-> <<>>]

\* a search at threshold 0 on the two built corpora, with a query that has
\* n-grams, none of them in the table: both return the empty list
C21_Witness ==
    /\ query.asked
    /\ query.t = <<0, 1>>
    /\ Ngrams(query.q) # <<>>
    /\ seq.state = "built" /\ par.state = "built"
    /\ NoKnownNgram(seq, query.q) /\ NoKnownNgram(par, query.q)
    /\ hits["seq"].results = <<>> /\ hits["par"].results = <<>>

---------------------------------------------------------------------------
(* The scenario specification: the keys cat, dog, bird, fish, lion, padded  *)
(* with one space on each side, some of them in some order, and the corpus  *)
(* each builder returns for them                                            *)

\* the gram of a character
Code(ch) == CHOOSE i \in DOMAIN Alphabet : Alphabet[i] = ch

\* a text padded with one space on each side, as grams
PaddedKey(text) == [i \in 1..(Len(text) + 2) |->
                       IF i = 1 \/ i = Len(text) + 2 THEN Code(" ")
                       ELSE Code(text[i - 1])]

Words == <<(<<"c", "a", "t">>), (<<"d", "o", "g">>), (<<"b", "i", "r", "d">>),
           (<<"f", "i", "s", "h">>), (<<"l", "i", "o", "n">>)>>

\* the key collection [cat, dog, bird, fish, lion]
ScenarioKeys == [i \in DOMAIN Words |-> PaddedKey(Words[i])]

\* the collections of distinct keys of the scenario, in any order
ScenarioCollections ==
    {[i \in DOMAIN order |-> ScenarioKeys[order[i]]] :
        order \in {o \in UNION {[1..m -> DOMAIN Words] : m \in 0..Len(Words)} :
                      \A i, j \in DOMAIN o : i # j => o[i] # o[j]}}

InitScenario ==
    /\ keys \in ScenarioCollections
    /\ pc = "scenario"
    /\ seq = [state |-> "none"]
    /\ par = [state |-> "none"]
    /\ WeightsIdle
    /\ HeapIdle
    /\ SearchIdle
    /\ RemapIdle

\* Corpus::from(keys)
ScenarioFrom ==
    /\ pc = "scenario"
    /\ seq.state = "none"
    /\ seq' \in {From(keys, junk) : junk \in Junk}
    /\ UNCHANGED <<keys, pc, par, wvars, hvars, svars, remap>>

\* Corpus::par_from(keys)
ScenarioParFrom ==
    /\ pc = "scenario"
    /\ par.state = "none"
    /\ par' \in {ParFrom(keys, junk) : junk \in Junk}
    /\ UNCHANGED <<keys, pc, seq, wvars, hvars, svars, remap>>

NextScenario ==
    \/ ScenarioFrom
    \/ ScenarioParFrom

SpecScenario == InitScenario /\ [][NextScenario]_vars

(* C22 as stated: for the keys [cat, dog, bird, fish, lion] with arity 2   *)
(* and one space of padding on each side, the built corpus has 14 n-grams   *)
(* and key 0 has degree 4.                                                  *)
C22_ScenarioAsStated ==
    \A c \in BuiltCorpora :
        keys = ScenarioKeys =>
            /\ number_of_ngrams(c) = 14
            /\ src_degree(c.graph, 0) = 4

(* C22, amended: for the keys [cat, dog, bird, fish, lion] with arity 2 and *)
(* one space of padding on each side, the built corpus has 23 n-grams, the  *)
(* distinct windows of two characters, and key 0 has degree 4.              *)
C22_Scenario ==
    \A c \in BuiltCorpora :
        keys = ScenarioKeys =>
            /\ number_of_ngrams(c) = 23
            /\ number_of_destination_nodes(c.graph) = 23
            /\ src_degree(c.graph, 0) = 4

\* the five keys in the order of the scenario, built by both builders
C22_Witness ==
    /\ keys = ScenarioKeys
    /\ seq.state = "built"
    /\ par.state = "built"
    /\ Ngrams(keys[1]) = <<NgramOf(<<Code(" "), Code("c")>>),
                           NgramOf(<<Code("c"), Code("a")>>),
                           NgramOf(<<Code("a"), Code("t")>>),
                           NgramOf(<<Code("t"), Code(" ")>>)>>

---------------------------------------------------------------------------
(* sux AtomicBitFieldVec: the fields of bit_width bits lie one after the    *)
(* other in atomic words; a field may share its word with its neighbours    *)
(* and may straddle two words. The words of the model have AtomicWordBits   *)
(* bits, so that both happen on short vectors.                              *)

AtomicWordBits == 3

\* AtomicBitFieldVec::new: every word zero
NewAtomicBitFieldVec(bit_width, len) ==
    [i \in 1..((bit_width * len + AtomicWordBits - 1) \div AtomicWordBits) |-> 0]

\* the word and the bit where the field of an index starts
WordIndex(bit_width, index) == (bit_width * index) \div AtomicWordBits
BitIndex(bit_width, index) == (bit_width * index) % AtomicWordBits

\* whether the field of the index straddles two words
Straddles(bit_width, index) == BitIndex(bit_width, index) + bit_width > AtomicWordBits

(* the word a worker wants to store in place of the word it has seen:      *)
(* part 0 is the word where the field starts, part 1 the next word, which  *)
(* holds the high bits of a field that straddles                           *)
NewWord(seen, bit_width, index, value, part) ==
    LET bit_index == BitIndex(bit_width, index)
        low_bits == AtomicWordBits - bit_index
    IN  IF ~Straddles(bit_width, index)
        THEN seen - ((seen \div Pow2(bit_index)) % Pow2(bit_width)) * Pow2(bit_index)
                  + (value % Pow2(bit_width)) * Pow2(bit_index)
        ELSE IF part = 0
        THEN (seen % Pow2(bit_index)) + (value % Pow2(low_bits)) * Pow2(bit_index)
        ELSE seen - (seen % Pow2(bit_width - low_bits))
                  + (value % Pow2(bit_width)) \div Pow2(low_bits)

\* a plain store in place of the compare_exchange: the word is overwritten
\* whatever it has become since it was loaded
CompareExchange_Store(word, current, new) == [ok |-> TRUE, word |-> new]

\* AtomicUsize::compare_exchange(current, new)
CompareExchange(word, current, new) ==
    IF word = current THEN [ok |-> TRUE, word |-> new] ELSE [ok |-> FALSE, word |-> word]

\* the field of an index, read from the words
AtomicGet(words, bit_width, index) ==
    LET bit_index == BitIndex(bit_width, index)
        word_index == WordIndex(bit_width, index)
        low_bits == AtomicWordBits - bit_index
    IN  IF ~Straddles(bit_width, index)
        THEN (words[word_index + 1] \div Pow2(bit_index)) % Pow2(bit_width)
        ELSE (words[word_index + 1] \div Pow2(bit_index))
                 + (words[word_index + 2] % Pow2(bit_width - low_bits)) * Pow2(low_bits)

\* From<AtomicBitFieldVec> for BitFieldVec: the same words, no longer atomic
IntoBitFieldVec(words, v, values) ==
    [v EXCEPT !.fields = [i \in 1..v.len |-> AtomicGet(words, v.bit_width, i - 1)],
              !.fits = \A i \in 1..v.len : values[i] < Pow2(v.bit_width)]

---------------------------------------------------------------------------
(* The remap specification: par_from with each worker of the parallel       *)
(* for_each taking the atomic operations of its set_unchecked one by one    *)

\* the remap takes the n-grams of the edges as one vector, whatever the keys
\* they come from: the collections are those of one key, and the empty one
RemapCollections == {<<>>} \cup {<<key>> : key \in KeysUpTo(MaxGrams)}

\* the worker of an edge before its set_unchecked: the value to store is
\* the index of the n-gram of the edge; failed is history, whether a
\* compare_exchange of the worker has failed
NewWorker(p, edge_id) ==
    [at |-> "load", part |-> 0, seen |-> 0, failed |-> FALSE,
     value |-> IndexOf(p.ngrams, p.key_to_ngrams[edge_id + 1])]

\* the AtomicBitFieldVec of par_from and the workers of its for_each
StartRemap(p) ==
    [words |-> NewAtomicBitFieldVec(p.key_to_ngram_edges.bit_width,
                                    p.key_to_ngram_edges.len),
     workers |-> [i \in 1..p.key_to_ngram_edges.len |-> NewWorker(p, i - 1)]]

InitRemap ==
    /\ keys \in RemapCollections
    /\ pc = "par_remap"
    /\ seq = [state |-> "none"]
    /\ par = ParStart(keys)
    /\ remap = StartRemap(par)
    /\ WeightsIdle
    /\ HeapIdle
    /\ SearchIdle

\* the word of the vector a worker is at
WorkerWord(edge_id) ==
    WordIndex(par.key_to_ngram_edges.bit_width, edge_id) + remap.workers[edge_id + 1].part

\* a worker loads the word it is about to change
WorkerLoad(edge_id) ==
    /\ pc = "par_remap"
    /\ edge_id < Len(remap.workers)
    /\ remap.workers[edge_id + 1].at = "load"
    /\ remap' = [remap EXCEPT !.workers[edge_id + 1].at = "compare_exchange",
                              !.workers[edge_id + 1].seen =
                                  remap.words[WorkerWord(edge_id) + 1]]
    /\ UNCHANGED <<cvars, wvars, hvars, svars>>

\* the stores of a worker after a compare_exchange: the word is new when the
\* exchange succeeded, and the worker goes on to the next word of its field,
\* or is done; when it failed, the worker has seen the word as it is now
AfterExchange(edge_id, exchanged) ==
    LET w == remap.workers[edge_id + 1]
        bit_width == par.key_to_ngram_edges.bit_width
    IN  IF ~exchanged.ok
        THEN [remap EXCEPT !.workers[edge_id + 1].seen = exchanged.word,
                           !.workers[edge_id + 1].failed = TRUE]
        ELSE [words |-> [remap.words EXCEPT ![WorkerWord(edge_id) + 1] = exchanged.word],
              workers |-> [remap.workers EXCEPT ![edge_id + 1] =
                  IF Straddles(bit_width, edge_id) /\ w.part = 0
                  THEN [w EXCEPT !.at = "load", !.part = 1]
                  ELSE [w EXCEPT !.at = "done"]]]

\* a worker tries to put its word in place of the word it has seen
WorkerCompareExchange(edge_id) ==
    /\ pc = "par_remap"
    /\ edge_id < Len(remap.workers)
    /\ remap.workers[edge_id + 1].at = "compare_exchange"
    /\ remap' =
           AfterExchange(edge_id,
               CompareExchange(remap.words[WorkerWord(edge_id) + 1],
                               remap.workers[edge_id + 1].seen,
                               NewWord(remap.workers[edge_id + 1].seen,
                                       par.key_to_ngram_edges.bit_width, edge_id,
                                       remap.workers[edge_id + 1].value,
                                       remap.workers[edge_id + 1].part)))
    /\ UNCHANGED <<cvars, wvars, hvars, svars>>

\* the state of par_from once the for_each has returned and the vector is
\* no longer atomic
Joined(p, r) ==
    [p EXCEPT !.key_to_ngram_edges =
                  IntoBitFieldVec(r.words, p.key_to_ngram_edges,
                                  [i \in 1..Len(r.workers) |-> r.workers[i].value]),
              !.pending = {}]

\* the for_each returns when every worker is done; par_from runs to its end
RemapJoin ==
    /\ pc = "par_remap"
    /\ \A i \in 1..Len(remap.workers) : remap.workers[i].at = "done"
    /\ par' \in {ParFinish(keys, Joined(par, remap), junk) : junk \in Junk}
    /\ pc' = "done"
    /\ UNCHANGED <<keys, seq, remap, wvars, hvars, svars>>

NextRemap ==
    \/ \E edge_id \in 0..(MaxGrams - 1) : WorkerLoad(edge_id)
    \/ \E edge_id \in 0..(MaxGrams - 1) : WorkerCompareExchange(edge_id)
    \/ RemapJoin

SpecRemap == InitRemap /\ [][NextRemap]_vars

(* C23: whatever the interleaving of the workers of the parallel remap, no  *)
(* write is lost: the slot of a worker that is done holds the rank of the   *)
(* n-gram of its edge in the sorted gram table, also when other workers     *)
(* have since written the same word, and the corpus par_from returns is the *)
(* one of the remap run edge after edge.                                    *)
C23_NoLostWrite ==
    /\ pc = "par_remap" =>
           \A edge_id \in 0..(Len(remap.workers) - 1) :
               remap.workers[edge_id + 1].at = "done" =>
                   AtomicGet(remap.words, par.key_to_ngram_edges.bit_width, edge_id)
                       = Rank(keys, par.key_to_ngrams[edge_id + 1])
    /\ pc = "done" =>
           /\ par = ParFrom(keys, 0)
           /\ par.state = "built" =>
                  \A edge_id \in 0..(Len(remap.workers) - 1) :
                      Get(par.graph.dsts_to_srcs, edge_id)
                          = Rank(keys, ParStart(keys).key_to_ngrams[edge_id + 1])

\* par_from has returned after a remap where a compare_exchange failed, with
\* a field that straddles two words and a non-zero rank stored
C23_Witness ==
    /\ pc = "done"
    /\ par.state = "built"
    /\ \E i \in 1..Len(remap.workers) : remap.workers[i].failed
    /\ \E i \in 1..Len(remap.workers) :
           Straddles(par.graph.dsts_to_srcs.bit_width, i - 1)
    /\ \E i \in 1..Len(remap.workers) : Get(par.graph.dsts_to_srcs, i - 1) > 0

---------------------------------------------------------------------------
(* The access specification: a built corpus, and the calls that take it by  *)
(* shared reference, any number of times in any order: the accessors of     *)
(* impl Corpus, the weight iterators and the searches. One call is          *)
(* remembered with what it returned, and is made again later.               *)

\* Corpus::number_of_keys
number_of_keys(c) == Len(c.keys)

\* Corpus::key_from_id
key_from_id(c, key_id) == c.keys[key_id + 1]

\* the accessors that take no argument, a key id, a gram id, an n-gram
NoArgAccessors == {"number_of_keys", "number_of_ngrams", "weights"}
KeyIdAccessors == {"key_from_id", "number_of_ngrams_from_key_id", "ngram_ids_from_key",
                   "ngram_cooccurrences_from_key"}
GramIdAccessors == {"ngram_from_id", "number_of_keys_from_ngram_id", "key_ids_from_ngram_id"}

\* a call: the name of the method and its arguments, those it does not take
\* left at a default
CallOf(name, id, q, t, k) == [name |-> name, id |-> id, q |-> q, t |-> t, k |-> k]

\* the searches of this specification: the queries of up to Arity grams,
\* the lowest and a middle threshold, the least and the greatest limit
Calls ==
    {CallOf(name, 0, <<>>, <<0, 1>>, 1) : name \in NoArgAccessors}
        \cup {CallOf(name, id, <<>>, <<0, 1>>, 1) :
                  name \in KeyIdAccessors, id \in 0..(MaxSearchKeys - 1)}
        \cup {CallOf(name, id, <<>>, <<0, 1>>, 1) :
                  name \in GramIdAccessors, id \in 0..(MaxQuery - Arity)}
        \cup {CallOf("ngram_id_from_ngram", 0, q, <<0, 1>>, 1) :
                  q \in [1..Arity -> 1..NumGrams]}
        \cup {CallOf("search", 0, q, t, k) :
                  q \in KeysUpTo(Arity), t \in {<<0, 1>>, <<1, 2>>}, k \in {1, MaxN}}

\* whether the corpus is there and the ids of the call are ids of the corpus
InRange(c, call) ==
    /\ c.state = "built"
    /\ call.name \in KeyIdAccessors => call.id < number_of_keys(c)
    /\ call.name \in GramIdAccessors => call.id < number_of_ngrams(c)

\* what an accessor returns; an iterator is read to its end
Accessor(c, call) ==
    CASE call.name = "number_of_keys" -> number_of_keys(c)
      [] call.name = "number_of_ngrams" -> number_of_ngrams(c)
      [] call.name = "weights" -> EdgeWeights(c)
      [] call.name = "key_from_id" -> key_from_id(c, call.id)
      [] call.name = "number_of_ngrams_from_key_id" -> src_degree(c.graph, call.id)
      [] call.name = "ngram_ids_from_key" -> dsts_from_src(c.graph, call.id)
      [] call.name = "ngram_cooccurrences_from_key" -> weights_from_src(c.graph, call.id)
      [] call.name = "ngram_from_id" -> ngram_from_id(c, call.id)
      [] call.name = "number_of_keys_from_ngram_id" -> dst_degree(c.graph, call.id)
      [] call.name = "key_ids_from_ngram_id" -> srcs_from_dst(c.graph, call.id)
      [] call.name = "ngram_id_from_ngram" -> ngram_id_from_ngram(c, NgramOf(call.q))
      [] call.name = "search" -> search(c, call.q, call.t, call.k)

\* what a call on a corpus returns to its caller
CallOn(c, call) ==
    IF InRange(c, call)
    THEN [state |-> "returned", value |-> Accessor(c, call)]
    ELSE [state |-> "not called"]

\* a receiver taken by value: the caller has no corpus after the call
SharedRef_ByValue(c) == [state |-> "none"]

\* the receiver of every one of these methods is &self, and no field of the
\* corpus, of the graph or of the weights has interior mutability: the
\* corpus after a call is the corpus before it
SharedRef(c) == c

InitAccess == InitSearch

\* the call that is remembered with what it returned on each corpus the
\* first time, and is made again
RememberedCall(call) ==
    /\ pc = "done"
    /\ query.asked => call = query.call
    /\ hits' = [name \in {"seq", "par"} |-> CallOn(CorpusOf(name), call)]
    /\ query' = IF query.asked
                THEN [query EXCEPT !.again = TRUE]
                ELSE [asked |-> TRUE, call |-> call, others |-> FALSE, again |-> FALSE,
                      first |-> hits']
    /\ seq' = SharedRef(seq)
    /\ par' = SharedRef(par)
    /\ UNCHANGED <<keys, pc, wvars, hvars, remap>>

\* another call, whose result goes to its caller
OtherCall(call) ==
    /\ pc = "done"
    /\ query.asked
    /\ call # query.call
    /\ \E name \in {"seq", "par"} : InRange(CorpusOf(name), call)
    /\ query' = [query EXCEPT !.others = TRUE]
    /\ seq' = SharedRef(seq)
    /\ par' = SharedRef(par)
    /\ UNCHANGED <<keys, pc, hits, wvars, hvars, remap>>

NextAccess ==
    \/ \E call \in Calls : RememberedCall(call)
    \/ \E call \in Calls : OtherCall(call)

SpecAccess == InitAccess /\ [][NextAccess]_vars

---------------------------------------------------------------------------
(* The writes of the loop of Corpus::from that fills gram_to_key_edges *)

(* the loop of FromInvertLoop once more, keeping, for each edge in key      *)
(* order, the n-gram of the edge, the key, and the position the key is      *)
(* written at                                                               *)
RECURSIVE FromInvertWrites(_, _, _, _, _)
FromInvertWrites(key_offsets, key_to_ngram_edges, edge_id, ngram_degrees, junk) ==
    IF edge_id = key_to_ngram_edges.len THEN <<>>
    ELSE LET key_id == CHOOSE k \in 0..(Len(key_offsets) - 2) :
                           key_offsets[k + 1] <= edge_id /\ edge_id < key_offsets[k + 2]
             ngram_id == Get(key_to_ngram_edges, edge_id)
             ngram_degree == Get(ngram_degrees, ngram_id)
             inbound_edge_id == Get(ngram_degrees, ngram_id) + ngram_degree
         IN  <<[ngram_id |-> ngram_id, key_id |-> key_id,
                inbound_edge_id |-> inbound_edge_id]>>
                 \o FromInvertWrites(key_offsets, key_to_ngram_edges, edge_id + 1,
                        SetUnchecked(ngram_degrees, ngram_id, ngram_degree + 1, junk),
                        junk)

\* the writes of Corpus::from(ks) into gram_to_key_edges, in the order made
FromWrites(ks, junk) ==
    LET parsed == FromKeysLoop(ks, [ngrams |-> {}, cooccurrences |-> <<>>,
                                    key_offsets |-> <<0>>, key_to_ngrams |-> <<>>])
        remapped == FromRemapLoop(parsed.key_to_ngrams, 0, SortedSeq(parsed.ngrams),
            [ngram_degrees |->
                 NewBitFieldVec(Ilog2(NextPowerOfTwo(Len(parsed.cooccurrences))),
                                Cardinality(parsed.ngrams) + 1),
             key_to_ngram_edges |->
                 NewBitFieldVec(Ilog2(NextPowerOfTwo(Cardinality(parsed.ngrams))),
                                Len(parsed.key_to_ngrams))],
            junk)
    IN  FromInvertWrites(parsed.key_offsets, remapped.key_to_ngram_edges, 0,
                         Reset(remapped.ngram_degrees), junk)

\* how many of the writes before the e-th are of the same n-gram
EarlierOfGram(writes, e) ==
    Cardinality({f \in 1..(e - 1) : writes[f].ngram_id = writes[e].ngram_id})

\* whether the writes are at the offset of their gram plus the number of
\* keys written for the gram before, each position of [0, E) once
AtOffsetPlusCursor(writes, g) ==
    /\ \A e \in 1..Len(writes) :
           writes[e].inbound_edge_id =
               g.dsts_offsets[writes[e].ngram_id + 1] + EarlierOfGram(writes, e)
    /\ \A e, f \in 1..Len(writes) :
           e # f => writes[e].inbound_edge_id # writes[f].inbound_edge_id
    /\ {writes[e].inbound_edge_id : e \in 1..Len(writes)} = 0..(number_of_edges(g) - 1)

(* C25: in Corpus::from the j-th key that contains gram gid is written at   *)
(* position dsts_offsets[gid] + j of the inverted index: every write lies   *)
(* in the range of its gram, no position is written twice, and every        *)
(* position in [0, E) is written exactly once.                              *)
C25_InvertedWritePositions ==
    \A junk \in Junk :
        (seq.state = "built" /\ seq = From(keys, junk)) =>
            AtOffsetPlusCursor(FromWrites(keys, junk), seq.graph)

(* C26: in both builders every value written with set_unchecked into a      *)
(* bit-packed vector is smaller than 2^b, b being the bit width of the      *)
(* vector: the degrees fit ngram_degrees, the gram ids key_to_ngram_edges,  *)
(* the key ids gram_to_key_edges, for every corpus.                         *)
C26_ValuesFit ==
    \A c \in BuiltCorpora :
        /\ c.ngram_degrees.fits
        /\ c.graph.dsts_to_srcs.fits
        /\ c.graph.srcs_to_dsts.fits

---------------------------------------------------------------------------
(* A key that yields no n-gram *)

\* the keys of the collection that yield no n-gram, by id, when some other
\* key yields one
KeysWithoutNgram ==
    {kid \in 0..(Len(keys) - 1) :
        /\ Ngrams(keys[kid + 1]) = <<>>
        /\ \E other \in 1..Len(keys) : Ngrams(keys[other]) # <<>>}

\* the id a key has in the collection without the key of id kid
IdWithout(kid, other) == IF other < kid THEN other ELSE other - 1

\* the neighbours and the weights of a key
NeighboursAndWeights(c, kid) ==
    [key |-> key_from_id(c, kid),
     ngram_ids |-> dsts_from_src(c.graph, kid),
     ngrams |-> [i \in 1..Len(dsts_from_src(c.graph, kid)) |->
                    ngram_from_id(c, dsts_from_src(c.graph, kid)[i])],
     cooccurrences |-> weights_from_src(c.graph, kid)]

\* whether the key of id kid is in the corpus c as a key of no n-gram, with
\* the other keys as they are in the corpus without, built by the same builder
AsKeyWithoutNgram(c, kid, without) ==
    /\ c.state = "built"
    /\ key_from_id(c, kid) = keys[kid + 1]
    /\ c.graph.srcs_offsets[kid + 1] = c.graph.srcs_offsets[kid + 2]
    /\ src_degree(c.graph, kid) = 0
    /\ dsts_from_src(c.graph, kid) = <<>>
    /\ weights_from_src(c.graph, kid).out = <<>>
    /\ \A gid \in 0..(number_of_ngrams(c) - 1) :
           kid \notin Range(srcs_from_dst(c.graph, gid))
    /\ without.state = "built"
    /\ \A other \in (0..(Len(keys) - 1)) \ {kid} :
           NeighboursAndWeights(c, other)
               = NeighboursAndWeights(without, IdWithout(kid, other))

(* C27: a key that yields no n-gram, in a collection where another key      *)
(* yields one, is accepted by both builders: it keeps its id, its two key   *)
(* offsets are equal, its degree is 0, its neighbour and weight lists are   *)
(* empty, it is in no gram's key list, and the ids, neighbours and weights  *)
(* of the other keys are as without it.                                     *)
C27_KeyWithoutNgram ==
    \A kid \in KeysWithoutNgram :
        /\ seq.state # "none" =>
               AsKeyWithoutNgram(seq, kid, From(Without(keys, kid + 1), 0))
        /\ (par.state # "none" /\ pc = "done") =>
               AsKeyWithoutNgram(par, kid, ParFrom(Without(keys, kid + 1), 0))

---------------------------------------------------------------------------
(* The encoding of the rows *)

\* the number of zeros a row starts with
RECURSIVE LeadingZeros(_)
LeadingZeros(row) ==
    IF row = <<>> \/ Head(row) # 0 THEN 0 ELSE 1 + LeadingZeros(Tail(row))

(* the weights of a row, left to right: unary(w) for a non-zero weight w,   *)
(* unary(0) and gamma(z - 1) for a maximal run of z zeros                   *)
RECURSIVE RunsEncoding(_)
RunsEncoding(row) ==
    IF row = <<>> THEN <<>>
    ELSE IF Head(row) # 0
    THEN WriteUnary(Head(row)) \o RunsEncoding(Tail(row))
    ELSE WriteUnary(0) \o WriteGamma(LeadingZeros(row) - 1)
             \o RunsEncoding(SubSeq(row, LeadingZeros(row) + 1, Len(row)))

(* C28: push encodes a row as gamma(row length), then unary(w) for every    *)
(* non-zero weight and unary(0), gamma(z - 1) for every maximal run of z    *)
(* zeros, the run being flushed at the next non-zero weight or at the end   *)
(* of the row: the stream is the concatenation of these encodings, row by   *)
(* row, and a run of zeros never goes on into the next row.                 *)
C28_PushEncoding ==
    builder.writer =
        Flatten([i \in 1..Len(pushed) |->
                    WriteGamma(Len(pushed[i])) \o RunsEncoding(pushed[i])])

\* a row that ends with a zero followed by a row that starts with one, after
\* a non-zero weight
C28_Witness ==
    /\ Len(pushed) >= 2
    /\ \E i \in 1..(Len(pushed) - 1) :
           /\ Len(pushed[i]) >= 2
           /\ pushed[i][1] # 0
           /\ pushed[i][Len(pushed[i])] = 0
           /\ pushed[i + 1] # <<>>
           /\ pushed[i + 1][1] = 0
    /\ builder.num_nodes = Len(pushed)

---------------------------------------------------------------------------
(* The counters of the builder *)

(* C29: after any sequence of pushes, num_nodes is the number of pushes,    *)
(* num_weights the sum of the row lengths, len the sum of the bit counts    *)
(* the pushes returned, offsets[i] the sum of the bit counts of the pushes  *)
(* before the i-th, so that the offsets are strictly increasing; build()    *)
(* and par_build() report the same num_nodes and num_arcs.                  *)
C29_BuilderCounters ==
    /\ builder.num_nodes = Len(pushed)
    /\ builder.num_weights = SumSeq([i \in 1..Len(pushed) |-> Len(pushed[i])])
    /\ builder.len = SumSeq([i \in 1..Len(pushed) |-> PushReturns(pushed[i])])
    /\ Len(builder.offsets) = Len(pushed)
    /\ \A i \in 1..Len(pushed) :
           builder.offsets[i] = SumSeq([j \in 1..(i - 1) |-> PushReturns(pushed[j])])
    /\ StrictlyIncreasing(builder.offsets)
    /\ num_nodes(BuildWeights(builder)) = num_nodes(ParBuildWeights(builder))
    /\ num_arcs(BuildWeights(builder)) = num_arcs(ParBuildWeights(builder))
    /\ weights.built =>
           /\ num_nodes(weights) = Len(pushed)
           /\ num_arcs(weights) = SumSeq([i \in 1..Len(pushed) |-> Len(pushed[i])])

\* the weights are built after as many pushes as the model has, one of an
\* empty row and one of a row with a zero
C29_Witness ==
    /\ weights.built
    /\ Len(pushed) = MaxRows
    /\ \E i \in 1..Len(pushed) : pushed[i] = <<>>
    /\ \E i \in 1..Len(pushed) : \E j \in 1..Len(pushed[i]) : pushed[i][j] = 0

---------------------------------------------------------------------------
(* The iterators at the end of a row and at the end of the stream *)

\* the bit position where the row of a node ends
RowEnd(node_id) == builder.offsets[node_id + 1] + PushReturns(pushed[node_id + 1])

\* ExactSizeIterator::len of Succ and of WeightsIter
SuccLen(s) == s.weights_to_decode
WeightsIterLen(it) == it.len

(* C30: for a Succ reading a pushed row, the pending zero run never exceeds *)
(* the weights still to decode, len() is the number of items next will      *)
(* still return, and after the last weight of the row next returns None     *)
(* without reading further bits; WeightsIter skips the empty rows and       *)
(* stops after exactly num_weights items, without reading the prefix of a   *)
(* row past the last one.                                                   *)
C30_IteratorsStopInTime ==
    /\ reader.kind = "labels" =>
           /\ reader.ok
           /\ reader.weights_to_decode >= reader.zeros_range
           /\ SuccLen(reader) = Len(pushed[reader.node + 1]) - Len(reader.out)
           /\ Len(reader.out) = Len(pushed[reader.node + 1]) =>
                  reader.pos = RowEnd(reader.node)
           /\ reader.done => reader.out = pushed[reader.node + 1]
    /\ reader.kind = "weights" =>
           /\ reader.ok
           /\ reader.weights_to_decode >= reader.zeros_range
           /\ WeightsIterLen(reader) = num_arcs(weights) - Len(reader.out)
           /\ reader.pos <= builder.len
           /\ reader.done =>
                  /\ Len(reader.out) = num_arcs(weights)
                  /\ reader.out = Flatten(pushed)

===========================================================================
